---- MODULE Spec2Model ----
(***************************************************************************)
(* A model of the skill4skill server controllers: the request-gated        *)
(* messaging store with its side channels, handler by handler and await by *)
(* await (message controller), the OTP flows of the user controller, skill *)
(* posting, editing and matching, the moderation gate, report              *)
(* de-duplication and the generative-AI key fallback (skill controller).   *)
(*                                                                         *)
(* Document ids are positive integers handed out by per-collection         *)
(* counters (an ObjectId is never reused); 0 stands for null / undefined.  *)
(* A collection is a function from the ids of its documents to records.    *)
(***************************************************************************)
EXTENDS Integers, Sequences, FiniteSets, Bags, TLC

VARIABLES
  chatRequests,   \* ChatRequest collection: a set of [requester, receiver, status]
  conversations,  \* Conversation collection: id -> [participants, messages, lastMessage]
  messages,       \* Message collection: id -> [senderId, receiverId, message, conversationId, read]
  nextId,         \* next fresh id per collection: [conv, msg]
  resp,           \* the last HTTP response: [op, status, caller, peer, id, text, body, seq]
  notify,         \* what the last message request did on the side channels: [online, emit, push]
  flight,         \* message requests in flight between two of their awaits
  users,          \* User collection: id -> the account's document
  now,            \* Date.now(), in ticks of ten minutes
  proc,           \* requests in flight between their lookup and their save
  otpIssue,       \* <<account, flow>> -> how many codes have been issued so far
  otpUses,        \* <<account, flow, issue>> -> requests that succeeded with that code
  skills,         \* Skill collection: id -> [user, type, title, category, tags],
                  \* with the description where createSkill and updateSkill write it
  profiles,       \* per user: [skillsToTeach, skillsToLearn, skillsOfferedCount]
  matches,        \* the body of the last getMatchingSkills response
  moderation,     \* what the last skill request asked outside: [gate, searched]
  reports,        \* Report collection: a bag of [reporter, reportedUser, conversationId, reportedSkill, reportType]
  env,            \* process.env.GOOGLE_API_KEYS, cut at the commas
  gemini          \* the callGeminiWithFallback call in progress

msgVars == <<chatRequests, conversations, messages, nextId>>
otpVars == <<users, now, proc, otpIssue, otpUses>>
skillVars == <<skills, profiles, matches, moderation>>
reportVars == <<reports>>
geminiVars == <<env, gemini>>
\* What the handlers of each group never touch.
msgRest == <<flight, otpVars, skillVars, reportVars, geminiVars>>
otpRest == <<msgVars, notify, flight, skillVars, reportVars, geminiVars>>
skillRest == <<msgVars, notify, flight, otpVars, reportVars, geminiVars>>
geminiRest == <<msgVars, notify, flight, otpVars, skillVars, reportVars, resp>>
vars == <<chatRequests, conversations, messages, nextId, resp, notify, flight,
          users, now, proc, otpIssue, otpUses,
          skills, profiles, matches, moderation, reports, env, gemini>>

\* ------------------------------------------------------------------ bounds
\* Messages ever sent. A conversation is only created together with its first
\* message, so this bounds the conversations ever created as well.
MaxMessages == 2

\* ------------------------------------------------------------- input sets
UserIds == {"u1", "u2"}
\* Message bodies: one clean, one containing a dictionary word.
Texts == {"hello", "damn"}

\* ---------------------------------------------------------------- helpers
Range(s) == {s[i] : i \in DOMAIN s}

Drop(f, ids) == [i \in DOMAIN f \ ids |-> f[i]]

Put(f, id, rec) == [i \in DOMAIN f \cup {id} |-> IF i = id THEN rec ELSE f[i]]

MinOf(S) == CHOOSE x \in S : \A y \in S : x <= y

\* $pull: every occurrence of id leaves the array.
Pull(s, id) == SelectSeq(s, LAMBDA x : x # id)

\* The response of a handler to the request (caller, peer user, document id,
\* body text); seq flips on every response so that two equal responses in a
\* row are still two steps.
Reply(op, status, caller, peer, id, text) ==
  resp' = [op |-> op, status |-> status, caller |-> caller, peer |-> peer,
           id |-> id, text |-> text, body |-> <<>>, seq |-> 1 - resp.seq]

\* ------------------------------------------------------ message controller
\* Nothing went out on the side channels.
NoNotify == [online |-> FALSE, emit |-> FALSE, push |-> ""]

Quiet == notify' = NoNotify

\* getReceiverSocketId(id) found a socket (online), so io.to(...).emit ran.
Emitted(online) == notify' = [online |-> online, emit |-> online, push |-> ""]

\* profanity.check(message): the message holds a word of the loaded dictionary.
ProfanityCheck(message) == message \in {"damn"}

\* Conversation.findOne({participants: {$all: [a, b]}}): the first
\* conversation whose participants hold both ids, or 0.
FindConversation(a, b) ==
  LET hits == {c \in DOMAIN conversations :
                 {a, b} \subseteq Range(conversations[c].participants)}
  IN IF hits = {} THEN 0 ELSE MinOf(hits)

\* A faulty variant of AcceptedRequest: the status is not looked at.
AcceptedRequestAnyStatus(a, b) ==
  \E q \in chatRequests :
     \/ q.requester = a /\ q.receiver = b
     \/ q.requester = b /\ q.receiver = a

\* ChatRequest.findOne({$or: [{requester: a, receiver: b, status: 'accepted'},
\*                            {requester: b, receiver: a, status: 'accepted'}]})
AcceptedRequest(a, b) ==
  \E q \in chatRequests :
     /\ q.status = "accepted"
     /\ \/ q.requester = a /\ q.receiver = b
        \/ q.requester = b /\ q.receiver = a

\* A faulty variant of SendVerdict: the gate is left out.
SendVerdictNoGate(senderId, receiverId, message) ==
  IF ProfanityCheck(message) THEN 400 ELSE 201

\* A faulty variant of SendVerdict: the profanity check is left out.
SendVerdictNoProfanity(senderId, receiverId, message) ==
  IF FindConversation(senderId, receiverId) = 0 /\ ~AcceptedRequest(senderId, receiverId)
  THEN 403 ELSE 201

\* The checks of sendMessage in the order the handler makes them: 400 on a
\* flagged message, 403 when there is neither a conversation nor an accepted
\* request, 201 otherwise.
SendVerdict(senderId, receiverId, message) ==
  IF ProfanityCheck(message) THEN 400
  ELSE IF FindConversation(senderId, receiverId) = 0
          /\ ~AcceptedRequest(senderId, receiverId) THEN 403
  ELSE 201

\* A faulty variant of PushMessage: the id goes to the front.
PushMessageFront(list, mid) == <<mid>> \o list

\* conversation.messages.push(newMessage._id)
PushMessage(list, mid) == Append(list, mid)

\* A faulty variant of SendPushNotification: a failed send is thrown at the caller.
SendPushNotificationThrowing(delivered) ==
  [push |-> IF delivered THEN "sent" ELSE "failed", thrown |-> ~delivered]

\* sendPushNotification(userId, payload) of utils/pushNotifier.js: the push
\* provider took the notification (delivered) or the send failed; a failure
\* is caught and logged inside, and the call returns either way.
SendPushNotification(delivered) ==
  [push |-> IF delivered THEN "sent" ELSE "failed", thrown |-> FALSE]

\* online: getReceiverSocketId(receiverId) finds a socket of the receiver;
\* delivered: the push provider takes the notification.
SendMessage(senderId, receiverId, message, online, delivered) ==
  /\ UNCHANGED msgRest
  /\ IF SendVerdict(senderId, receiverId, message) # 201
     THEN /\ Reply("sendMessage", SendVerdict(senderId, receiverId, message),
                  senderId, receiverId, 0, message)
          /\ UNCHANGED msgVars
          /\ Quiet
     ELSE
       LET conv == FindConversation(senderId, receiverId)
           created == conv = 0
           cid == IF created THEN nextId.conv ELSE conv
           base == IF created
                   THEN [participants |-> <<senderId, receiverId>>,
                         messages |-> <<>>, lastMessage |-> 0]
                   ELSE conversations[conv]
           mid == nextId.msg
       IN /\ mid <= MaxMessages
          /\ conversations' = Put(conversations, cid,
                [base EXCEPT !.messages = PushMessage(@, mid), !.lastMessage = mid])
          /\ messages' = Put(messages, mid,
                [senderId |-> senderId, receiverId |-> receiverId,
                 message |-> message, conversationId |-> cid, read |-> FALSE])
          /\ nextId' = [nextId EXCEPT !.msg = @ + 1,
                                      !.conv = IF created THEN @ + 1 ELSE @]
          /\ UNCHANGED chatRequests
          /\ notify' = [online |-> online, emit |-> online,
                        push |-> SendPushNotification(delivered).push]
          /\ Reply("sendMessage",
                   IF SendPushNotification(delivered).thrown THEN 500 ELSE 201,
                   senderId, receiverId, mid, message)

\* populate("messages"): the documents of the listed ids in the order of the
\* list; an id with no document is left out.
Populate(list) == SelectSeq(list, LAMBDA m : m \in DOMAIN messages)

\* getMessages: the populated list of the pair's conversation, or [] when the
\* pair has none.
GetMessages(senderId, userToChatId) ==
  /\ UNCHANGED msgRest
  /\ UNCHANGED msgVars
  /\ Quiet
  /\ LET conv == FindConversation(senderId, userToChatId)
     IN resp' = [op |-> "getMessages", status |-> 200, caller |-> senderId,
                 peer |-> userToChatId, id |-> conv, text |-> "",
                 body |-> IF conv = 0 THEN <<>> ELSE Populate(conversations[conv].messages),
                 seq |-> 1 - resp.seq]

\* The participant the pipeline of getConversations picks for a conversation:
\* the first one that is not the logged-in user, "" when there is none.
Participant(loggedInUserId, c) ==
  LET parts == conversations[c].participants
      others == {i \in DOMAIN parts : parts[i] # loggedInUserId}
  IN IF others = {} THEN "" ELSE parts[MinOf(others)]

\* A faulty variant of UnreadCount: read messages are counted too.
UnreadCountAll(loggedInUserId, c) ==
  Cardinality({m \in DOMAIN messages :
                 /\ messages[m].conversationId = c
                 /\ messages[m].senderId = Participant(loggedInUserId, c)
                 /\ messages[m].receiverId = loggedInUserId})

\* The $lookup on messages with $count: the messages that carry the
\* conversation's id, were sent by the participant to the logged-in user and
\* have read: false; $ifNull turns no match into 0.
UnreadCount(loggedInUserId, c) ==
  Cardinality({m \in DOMAIN messages :
                 /\ messages[m].conversationId = c
                 /\ messages[m].senderId = Participant(loggedInUserId, c)
                 /\ messages[m].receiverId = loggedInUserId
                 /\ messages[m].read = FALSE})

\* The conversations $match keeps for the user, by ascending id (the order of
\* the response, by updatedAt, is not modelled).
RECURSIVE ConversationsOf(_, _)
ConversationsOf(loggedInUserId, ids) ==
  IF ids = {} THEN <<>>
  ELSE IF loggedInUserId \in Range(conversations[MinOf(ids)].participants)
       THEN <<MinOf(ids)>> \o ConversationsOf(loggedInUserId, ids \ {MinOf(ids)})
       ELSE ConversationsOf(loggedInUserId, ids \ {MinOf(ids)})

\* getConversations: body holds the unreadCount of each listed conversation.
GetConversations(loggedInUserId) ==
  /\ UNCHANGED msgRest
  /\ UNCHANGED msgVars
  /\ Quiet
  /\ LET mine == ConversationsOf(loggedInUserId, DOMAIN conversations)
     IN resp' = [op |-> "getConversations", status |-> 200, caller |-> loggedInUserId,
                 peer |-> "", id |-> 0, text |-> "",
                 body |-> [i \in DOMAIN mine |-> UnreadCount(loggedInUserId, mine[i])],
                 seq |-> 1 - resp.seq]

\* markMessagesAsRead: 404 when the two users share no conversation, else
\* every unread message from userToChatId to the caller is set read.
MarkMessagesAsRead(currentUserId, userToChatId) ==
  /\ UNCHANGED msgRest
  /\ Quiet
  /\ UNCHANGED <<chatRequests, conversations, nextId>>
  /\ IF FindConversation(currentUserId, userToChatId) = 0
     THEN /\ UNCHANGED messages
          /\ Reply("markMessagesAsRead", 404, currentUserId, userToChatId, 0, "")
     ELSE /\ messages' = [m \in DOMAIN messages |->
                IF messages[m].senderId = userToChatId
                   /\ messages[m].receiverId = currentUserId
                THEN [messages[m] EXCEPT !.read = TRUE] ELSE messages[m]]
          /\ Reply("markMessagesAsRead", 200, currentUserId, userToChatId, 0, "")

\* Conversation.findOne({messages: messageId}): the first conversation listing it, or 0.
FindConversationOfMessage(messageId) ==
  LET hits == {c \in DOMAIN conversations :
                 messageId \in Range(conversations[c].messages)}
  IN IF hits = {} THEN 0 ELSE MinOf(hits)

\* A faulty variant of PullMessage: the id stays in the list.
PullMessageKeep(conv, messageId) == conversations

\* Conversation.updateOne({_id}, {$pull: {messages: messageId}})
PullMessage(conv, messageId) ==
  IF conv = 0 THEN conversations
  ELSE [conversations EXCEPT ![conv].messages = Pull(@, messageId)]

\* A faulty variant of IsSender: the receiver passes as well.
IsSenderOrReceiver(userId, messageId) ==
  userId \in {messages[messageId].senderId, messages[messageId].receiverId}

\* message.senderId.equals(userId)
IsSender(userId, messageId) == messages[messageId].senderId = userId

DeleteMessage(userId, messageId, online) ==
  /\ UNCHANGED msgRest
  /\ IF messageId \notin DOMAIN messages
     THEN /\ Reply("deleteMessage", 404, userId, "", messageId, "")
          /\ UNCHANGED msgVars
          /\ Quiet
     ELSE IF ~IsSender(userId, messageId)
     THEN /\ Reply("deleteMessage", 403, userId, "", messageId, "")
          /\ UNCHANGED msgVars
          /\ Quiet
     ELSE
       LET conv == FindConversationOfMessage(messageId)
           \* conversation.participants.find(p => !p.equals(userId)).toString()
           \* throws on a null conversation or when no other participant is found.
           thrown == \/ conv = 0
                     \/ \A i \in DOMAIN conversations[conv].participants :
                           conversations[conv].participants[i] = userId
       IN /\ conversations' = PullMessage(conv, messageId)
          /\ messages' = Drop(messages, {messageId})
          /\ UNCHANGED <<chatRequests, nextId>>
          /\ IF thrown THEN Quiet ELSE Emitted(online)
          /\ Reply("deleteMessage", IF thrown THEN 500 ELSE 200, userId, "", messageId, "")

ClearConversation(userId, conversationId) ==
  /\ UNCHANGED msgRest
  /\ IF conversationId \notin DOMAIN conversations
     THEN /\ Reply("clearConversation", 404, userId, "", conversationId, "")
          /\ UNCHANGED msgVars
          /\ Quiet
     ELSE IF userId \notin Range(conversations[conversationId].participants)
     THEN /\ Reply("clearConversation", 403, userId, "", conversationId, "")
          /\ UNCHANGED msgVars
          /\ Quiet
     ELSE /\ messages' = Drop(messages, Range(conversations[conversationId].messages))
          /\ conversations' = [conversations EXCEPT ![conversationId].messages = <<>>]
          /\ UNCHANGED <<chatRequests, nextId>>
          /\ Quiet
          /\ Reply("clearConversation", 200, userId, "", conversationId, "")

\* ChatRequest.findOneAndDelete({$or: [{sender: userId, receiver: other},
\*                                     {sender: other, receiver: userId}]}).
\* ChatRequest documents carry requester/receiver (sendMessage, getChatStatus),
\* not sender. What the filter matches depends on the ODM's strictQuery
\* setting: the unknown path is either kept (no document has it: nothing
\* matches) or stripped (any request received by one of the two matches).
\* The result is the set of collections the call may leave behind.
DeleteRequestOutcomes(userId, other) ==
  {chatRequests} \cup
  {chatRequests \ {q} : q \in {x \in chatRequests : x.receiver \in {userId, other}}}

DeleteConversation(userId, conversationId, online) ==
  /\ UNCHANGED msgRest
  /\ IF conversationId \notin DOMAIN conversations
     THEN /\ Reply("deleteConversation", 404, userId, "", conversationId, "")
          /\ UNCHANGED msgVars
          /\ Quiet
     ELSE IF userId \notin Range(conversations[conversationId].participants)
     THEN /\ Reply("deleteConversation", 403, userId, "", conversationId, "")
          /\ UNCHANGED msgVars
          /\ Quiet
     ELSE
       LET parts == conversations[conversationId].participants
           others == {i \in DOMAIN parts : parts[i] # userId}
       IN /\ IF others = {} THEN UNCHANGED chatRequests
             ELSE chatRequests' \in DeleteRequestOutcomes(userId, parts[MinOf(others)])
          /\ messages' = Drop(messages, {m \in DOMAIN messages :
                                           messages[m].conversationId = conversationId})
          /\ conversations' = Drop(conversations, {conversationId})
          /\ UNCHANGED nextId
          /\ IF others = {} THEN Quiet ELSE Emitted(online)
          /\ Reply("deleteConversation", 200, userId, "", conversationId, "")

\* getChatStatus of the user controller: 'accepted' when the two users share
\* a conversation; else the pending request between them decides between
\* 'idle', 'pending_sent' and 'pending_received'.
ChatStatus(loggedInUserId, profileId) ==
  LET pending == {q \in chatRequests :
                    /\ q.status = "pending"
                    /\ \/ q.requester = loggedInUserId /\ q.receiver = profileId
                       \/ q.requester = profileId /\ q.receiver = loggedInUserId}
  IN IF FindConversation(loggedInUserId, profileId) # 0 THEN "accepted"
     ELSE IF pending = {} THEN "idle"
     ELSE IF \E q \in pending : q.requester = loggedInUserId THEN "pending_sent"
     ELSE "pending_received"

GetChatStatus(loggedInUserId, profileId) ==
  /\ UNCHANGED msgRest
  /\ UNCHANGED msgVars
  /\ Quiet
  /\ Reply("getChatStatus", 200, loggedInUserId, profileId, 0,
           ChatStatus(loggedInUserId, profileId))

\* --------------------------------------------------- chat-request lifecycle
\* The chat-request controller: a user asks another for a chat, the receiver
\* answers accepted or rejected, either side may delete the request.
Between(a, b) ==
  {q \in chatRequests : {q.requester, q.receiver} = {a, b}}

CreateChatRequest(requester, receiver) ==
  /\ requester # receiver
  /\ Between(requester, receiver) = {}
  /\ chatRequests' = chatRequests \cup
        {[requester |-> requester, receiver |-> receiver, status |-> "pending"]}
  /\ UNCHANGED <<conversations, messages, nextId, resp, notify>>
  /\ UNCHANGED msgRest

RespondChatRequest(request, status) ==
  /\ request \in chatRequests
  /\ request.status = "pending"
  /\ chatRequests' = (chatRequests \ {request}) \cup {[request EXCEPT !.status = status]}
  /\ UNCHANGED <<conversations, messages, nextId, resp, notify>>
  /\ UNCHANGED msgRest

RemoveChatRequest(request) ==
  /\ request \in chatRequests
  /\ chatRequests' = chatRequests \ {request}
  /\ UNCHANGED <<conversations, messages, nextId, resp, notify>>
  /\ UNCHANGED msgRest

\* ------------------------------------------------------------ specification
EmptyCollection == [i \in {} |-> 0]

NoResponse ==
  [op |-> "", status |-> 0, caller |-> "", peer |-> "", id |-> 0, text |-> "",
   body |-> <<>>, seq |-> 0]

MsgInit ==
  /\ chatRequests = {}
  /\ conversations = EmptyCollection
  /\ messages = EmptyCollection
  /\ nextId = [conv |-> 1, msg |-> 1]
  /\ resp = NoResponse
  /\ notify = NoNotify
  /\ flight = EmptyCollection

\* The values of an input of the environment (is a socket of the receiver
\* registered, does the push provider take the notification): both where the
\* handler gets as far as reading it, one where it returns before.
Read(reached) == IF reached THEN BOOLEAN ELSE {FALSE}

MsgNext ==
  \/ \E a, b \in UserIds : CreateChatRequest(a, b)
  \/ \E q \in chatRequests, st \in {"accepted", "rejected"} : RespondChatRequest(q, st)
  \/ \E q \in chatRequests : RemoveChatRequest(q)
  \/ \E s, r \in UserIds, t \in Texts :
       \E online, delivered \in Read(SendVerdict(s, r, t) = 201) :
          SendMessage(s, r, t, online, delivered)
  \/ \E u \in UserIds, m \in 1..MaxMessages :
       \E online \in Read(m \in DOMAIN messages /\ messages[m].senderId = u) :
          DeleteMessage(u, m, online)
  \/ \E u \in UserIds, c \in 1..MaxMessages : ClearConversation(u, c)
  \/ \E s, r \in UserIds : GetMessages(s, r)
  \/ \E u, v \in UserIds : GetChatStatus(u, v)
  \/ \E u \in UserIds, c \in 1..MaxMessages :
       \E online \in Read(c \in DOMAIN conversations
                           /\ u \in Range(conversations[c].participants)) :
          DeleteConversation(u, c, online)

\* The collections and processes of the other controllers, at rest.
OtpIdle ==
  /\ users = EmptyCollection
  /\ now = 0
  /\ proc = EmptyCollection
  /\ otpIssue = EmptyCollection
  /\ otpUses = EmptyCollection

NoProfiles ==
  [u \in UserIds |-> [skillsToTeach |-> {}, skillsToLearn |-> {}, skillsOfferedCount |-> 0]]

\* The request asked neither the moderation gate nor the video search.
NoModeration == [gate |-> "unasked", searched |-> FALSE]

SkillIdle ==
  /\ skills = EmptyCollection
  /\ profiles = NoProfiles
  /\ matches = <<>>
  /\ moderation = NoModeration

ReportIdle == reports = EmptyBag

\* GOOGLE_API_KEYS is not set.
Unset == [set |-> FALSE, parts |-> <<>>]

\* No call of callGeminiWithFallback has started.
NoCall == [pc |-> "idle", context |-> "", i |-> 0, tried |-> <<>>, error |-> ""]

GeminiIdle ==
  /\ env = Unset
  /\ gemini = NoCall

Init == MsgInit /\ OtpIdle /\ SkillIdle /\ ReportIdle /\ GeminiIdle

Next == MsgNext

Spec == Init /\ [][Next]_vars

\* A handler answered in this step.
Responded(op) == resp'.seq # resp.seq /\ resp'.op = op

\* Two users with an accepted chat request between them send, list their
\* conversations, mark messages read and delete messages.
ReadInit ==
  /\ chatRequests = {[requester |-> "u1", receiver |-> "u2", status |-> "accepted"]}
  /\ conversations = EmptyCollection
  /\ messages = EmptyCollection
  /\ nextId = [conv |-> 1, msg |-> 1]
  /\ resp = NoResponse
  /\ notify = NoNotify
  /\ flight = EmptyCollection
  /\ OtpIdle
  /\ SkillIdle
  /\ ReportIdle
  /\ GeminiIdle

ReadNext ==
  \/ \E s, r \in UserIds, t \in Texts :
       \E online, delivered \in Read(SendVerdict(s, r, t) = 201) :
          SendMessage(s, r, t, online, delivered)
  \/ \E u \in UserIds : GetConversations(u)
  \/ \E u, v \in UserIds : MarkMessagesAsRead(u, v)
  \/ \E u \in UserIds, m \in 1..MaxMessages :
       \E online \in Read(m \in DOMAIN messages /\ messages[m].senderId = u) :
          DeleteMessage(u, m, online)

SpecRead == ReadInit /\ [][ReadNext]_vars

\* -------------------------------------------------- claims on the read state
\* The unread messages of conversation c for user u as the claim counts them:
\* the messages on the conversation's list sent by the other participant to u
\* with read = false.
C23_Unread(u, c) ==
  {m \in Range(conversations[c].messages) \cap DOMAIN messages :
     /\ messages[m].senderId \in Range(conversations[c].participants) \ {u}
     /\ messages[m].receiverId = u
     /\ ~messages[m].read}

\* C23: the unreadCount getConversations reports to u for a conversation is
\* the number of its messages sent by the other participant v to u with
\* read = false; after markMessagesAsRead(u, v) has returned 200 it is 0 and
\* stays 0 until v sends a message, and the call changes the read flag of no
\* message whose receiver is not u or whose sender is not v.
C23_UnreadCountAndMarkRead ==
  [][/\ Responded("getConversations") =>
          LET mine == ConversationsOf(resp'.caller, DOMAIN conversations)
          IN /\ Len(resp'.body) = Len(mine)
             /\ \A i \in DOMAIN mine :
                   resp'.body[i] = Cardinality(C23_Unread(resp'.caller, mine[i]))
     /\ \A u, v \in UserIds :
          (/\ Responded("markMessagesAsRead") /\ resp'.status = 200
           /\ resp'.caller = u /\ resp'.peer = v) =>
             /\ \A c \in DOMAIN conversations' :
                   Range(conversations'[c].participants) \ {u} = {v}
                   => UnreadCount(u, c)' = 0
             /\ \A m \in DOMAIN messages :
                   (messages[m].receiverId # u \/ messages[m].senderId # v)
                   => /\ m \in DOMAIN messages'
                      /\ messages'[m].read = messages[m].read
     /\ \A u \in UserIds, c \in DOMAIN conversations \cap DOMAIN conversations' :
          (UnreadCount(u, c) = 0 /\ UnreadCount(u, c)' > 0)
          => /\ Responded("sendMessage")
             /\ resp'.peer = u
             /\ resp'.caller = Participant(u, c)]_vars

\* markMessagesAsRead has set a message read, and an unread one is left.
C23_Witness ==
  /\ resp.op = "markMessagesAsRead"
  /\ resp.status = 200
  /\ \E m \in DOMAIN messages :
        messages[m].read /\ messages[m].receiverId = resp.caller
  /\ \E m \in DOMAIN messages : ~messages[m].read

\* ------------------------------------------------- claims on the messaging flow
\* Before the step: some conversation's participants hold both a and b, or a
\* chat request between a and b, in either direction, is accepted.
C1_PairOpen(a, b) ==
  \/ \E c \in DOMAIN conversations :
        /\ \E i \in DOMAIN conversations[c].participants : conversations[c].participants[i] = a
        /\ \E i \in DOMAIN conversations[c].participants : conversations[c].participants[i] = b
  \/ \E q \in chatRequests :
        /\ q.status = "accepted"
        /\ <<q.requester, q.receiver>> \in {<<a, b>>, <<b, a>>}

C1_CreatedOnlyIfOpen ==
  \A m \in DOMAIN messages' \ DOMAIN messages :
     C1_PairOpen(messages'[m].senderId, messages'[m].receiverId)

C1_ClosedStep(statuses) ==
  (Responded("sendMessage") /\ ~C1_PairOpen(resp'.caller, resp'.peer))
    => /\ resp'.status \in statuses
       /\ messages' = messages
       /\ conversations' = conversations

\* C1 as stated: a message is created only if, before the call, a conversation
\* holding both users exists or a chat request between them is accepted;
\* otherwise sendMessage answers 403 and creates neither a message nor a
\* conversation.
C1_GateOr403 == [][C1_CreatedOnlyIfOpen /\ C1_ClosedStep({403})]_vars

\* C1 amended: as C1, except that the answer with the gate closed is 400 when
\* the profanity check (made first) flags the message, and 403 otherwise.
C1_GateOr403Or400 ==
  [][C1_CreatedOnlyIfOpen
     /\ C1_ClosedStep({IF resp'.text = "damn" THEN 400 ELSE 403})]_vars

\* A clean message was refused with 403 while the gate is closed.
C1_Witness ==
  /\ resp.op = "sendMessage" /\ resp.status = 403 /\ resp.text = "hello"
  /\ DOMAIN conversations = {}
  /\ \E q \in chatRequests : q.status = "pending"

\* C2: every conversation is created in a step that starts in a state holding
\* an accepted chat request between its two participants.
C2_CreatedUnderAcceptedRequest ==
  [][\A c \in DOMAIN conversations' \ DOMAIN conversations :
        \E q \in chatRequests :
           /\ q.status = "accepted"
           /\ {q.requester, q.receiver} = Range(conversations'[c].participants)]_vars

\* A conversation that outlived its request: no request between its participants is left.
C2_Witness ==
  \E c \in DOMAIN conversations :
     /\ conversations[c].messages # <<>>
     /\ ~\E q \in chatRequests :
           {q.requester, q.receiver} = Range(conversations[c].participants)

\* C3: a sendMessage whose message the profanity check flags answers 400 and
\* changes no collection (no message stored, no conversation created or changed).
C3_ProfaneRejected ==
  [][(Responded("sendMessage") /\ resp'.text = "damn")
       => /\ resp'.status = 400
          /\ messages' = messages
          /\ conversations' = conversations
          /\ chatRequests' = chatRequests]_vars

\* A flagged message was refused although an accepted request was waiting and
\* no conversation existed yet.
C3_Witness ==
  /\ resp.op = "sendMessage" /\ resp.status = 400 /\ resp.text = "damn"
  /\ DOMAIN conversations = {}
  /\ \E q \in chatRequests :
        q.status = "accepted" /\ {q.requester, q.receiver} = {resp.caller, resp.peer}

\* C4: once deleteMessage has answered 200 for a message, that message is not
\* in the Message collection and in no conversation's messages list.
C4_DeletedEverywhere ==
  (resp.op = "deleteMessage" /\ resp.status = 200)
    => /\ resp.id \notin DOMAIN messages
       /\ \A c \in DOMAIN conversations :
             \A i \in DOMAIN conversations[c].messages :
                conversations[c].messages[i] # resp.id

\* One message of a conversation was deleted and another one is still listed.
C4_Witness ==
  /\ resp.op = "deleteMessage" /\ resp.status = 200
  /\ \E c \in DOMAIN conversations : conversations[c].messages # <<>>

\* C16: deleteMessage called by a user who is not the message's sender, its
\* receiver included, answers 403 and changes nothing: the Message still
\* exists and stays in its conversation's messages list.
C16_NonSenderRefused ==
  [][(/\ Responded("deleteMessage")
      /\ resp'.id \in DOMAIN messages
      /\ messages[resp'.id].senderId # resp'.caller)
     => /\ resp'.status = 403
        /\ messages' = messages
        /\ conversations' = conversations
        /\ chatRequests' = chatRequests]_vars

\* The receiver of a listed message has been refused.
C16_Witness ==
  /\ resp.op = "deleteMessage"
  /\ resp.status = 403
  /\ resp.id \in DOMAIN messages
  /\ messages[resp.id].receiverId = resp.caller
  /\ messages[resp.id].senderId # resp.caller
  /\ \E c \in DOMAIN conversations : resp.id \in Range(conversations[c].messages)

\* C17: after each successful sendMessage the new message is the last element
\* of its conversation's messages list and lastMessage refers to it; getMessages
\* returns the messages of a conversation in the order they were sent (ids are
\* given in the order of the sends).
C17_AppendedAndOrdered ==
  [][/\ (Responded("sendMessage") /\ resp'.status = 201) =>
          LET c == messages'[resp'.id].conversationId
              list == conversations'[c].messages
          IN /\ list # <<>>
             /\ list[Len(list)] = resp'.id
             /\ conversations'[c].lastMessage = resp'.id
     /\ Responded("getMessages") =>
          \A i, j \in DOMAIN resp'.body : i < j => resp'.body[i] < resp'.body[j]]_vars

\* getMessages has returned two messages of one conversation.
C17_Witness ==
  /\ resp.op = "getMessages"
  /\ Len(resp.body) >= 2

\* C18: in every state reachable by sendMessage, deleteMessage,
\* clearConversation and deleteConversation, a conversation's lastMessage is
\* unset or refers to an existing Message that is in the conversation's
\* messages list.
C18_LastMessageListed ==
  \A c \in DOMAIN conversations :
     \/ conversations[c].lastMessage = 0
     \/ /\ conversations[c].lastMessage \in DOMAIN messages
        /\ conversations[c].lastMessage \in Range(conversations[c].messages)

\* C20: after a participant's deleteConversation has succeeded, the
\* conversation and its messages are gone and no ChatRequest between the two
\* participants remains (so that a later sendMessage between them is refused
\* with 403); every other ChatRequest is left as it was.
C20_ConversationAndRequestGone ==
  [][(Responded("deleteConversation") /\ resp'.status = 200) =>
       LET parts == Range(conversations[resp'.id].participants)
       IN /\ resp'.id \notin DOMAIN conversations'
          /\ \A m \in DOMAIN messages' : messages'[m].conversationId # resp'.id
          /\ \A q \in chatRequests' : {q.requester, q.receiver} # parts
          /\ \A q \in chatRequests :
                {q.requester, q.receiver} # parts => q \in chatRequests'
          /\ \A a, b \in parts : a # b => SendVerdict(a, b, "hello")' = 403]_vars

\* C24: getChatStatus agrees with the gate of sendMessage: when it reports
\* 'accepted' for a pair a sendMessage between them passes the gate, and when
\* it reports 'idle', 'pending_sent' or 'pending_received' a sendMessage
\* between them is refused with 403.
C24_StatusAgreesWithGate ==
  [][\A u, v \in UserIds :
       (Responded("getChatStatus") /\ resp'.caller = u /\ resp'.peer = v) =>
          /\ resp'.text = "accepted" => SendVerdict(u, v, "hello")' = 201
          /\ resp'.text \in {"idle", "pending_sent", "pending_received"}
               => SendVerdict(u, v, "hello")' = 403]_vars

\* ---------------------------------------------- claims on the side channels
\* C11: after sendMessage has persisted a message it emits 'newMessage'
\* exactly when the receiver has a connected socket, and a push notification
\* is attempted only when the receiver is not connected.
C11_EmitElsePush ==
  (resp.op = "sendMessage" /\ resp.status = 201) =>
     /\ notify.emit = notify.online
     /\ notify.push # "" => ~notify.online

\* C12: when the push attempt of a sendMessage that persisted its message
\* fails, the response is still 201 and carries the new message.
C12_PushFailureStill201 ==
  (resp.op = "sendMessage" /\ notify.push = "failed") =>
     /\ resp.status = 201
     /\ resp.id \in DOMAIN messages
     /\ messages[resp.id].message = resp.text

C12_Witness ==
  /\ resp.op = "sendMessage"
  /\ resp.status = 201
  /\ notify.push = "failed"
  /\ resp.id \in DOMAIN messages

\* ----------------------------------------------------------- user controller
\* The accounts that may exist, and what the requests may carry.
AccountIds == {"u1"}
Emails == {"ann@x.io", "bob@x.io"}
Usernames == {"ann"}
Passwords == {"Passw0rd!", "Secr3t!xy", "weak"}
\* Math.floor(100000 + Math.random() * 900000).toString()
Codes == {"111111", "222222"}
Flows == {"verify", "reset", "change"}
\* The requests that may be in flight at once.
Procs == {"p1", "p2"}

\* The clock stops here.
MaxTime == 1
\* Codes issued in a run, over all accounts and flows.
MaxIssues == 2
\* new Date(Date.now() + 10 * 60 * 1000): ten minutes, one tick.
OtpTtl == 1

\* length >= 8, a lowercase and an uppercase letter, a digit, one of @$!%*?&
PasswordPolicyOk(password) == password \in {"Passw0rd!", "Secr3t!xy"}

\* The stored code and expiry of a flow in a user document.
StoredCode(doc, flow) ==
  CASE flow = "verify" -> doc.verificationOtp
    [] flow = "reset" -> doc.passwordResetOtp
    [] flow = "change" -> doc.emailChangeOtp

StoredExpiry(doc, flow) ==
  CASE flow = "verify" -> doc.verificationOtpExpiry
    [] flow = "reset" -> doc.passwordResetOtpExpiry
    [] flow = "change" -> doc.emailChangeOtpExpiry

\* A faulty variant of OtpValid: the expiry is not compared.
OtpValidNoExpiry(doc, flow, otp) == StoredCode(doc, flow) = otp

\* The filter {<flow>Otp: otp, <flow>OtpExpiry: {$gt: Date.now()}}
OtpValid(doc, flow, otp) ==
  StoredCode(doc, flow) = otp /\ StoredExpiry(doc, flow) > now

\* User.findOne({email, <flow>Otp: otp, <flow>OtpExpiry: {$gt: Date.now()}}): an id, or "".
FindByEmailAndOtp(flow, email, otp) ==
  LET hits == {u \in DOMAIN users :
                 users[u].email = email /\ OtpValid(users[u], flow, otp)}
  IN IF hits = {} THEN "" ELSE CHOOSE u \in hits : TRUE

\* User.findOne({_id: userId, emailChangeOtp: otp, emailChangeOtpExpiry: {$gt: Date.now()}})
FindByIdAndOtp(userId, otp) ==
  IF userId \in DOMAIN users /\ OtpValid(users[userId], "change", otp)
  THEN userId ELSE ""

FindByEmail(email) ==
  LET hits == {u \in DOMAIN users : users[u].email = email}
  IN IF hits = {} THEN "" ELSE CHOOSE u \in hits : TRUE

\* A code was issued to the account for the flow.
Issued(u, flow) ==
  otpIssue' = Put(otpIssue, <<u, flow>>,
                  IF <<u, flow>> \in DOMAIN otpIssue THEN otpIssue[<<u, flow>>] + 1 ELSE 1)

IssuesSoFar(u, flow) ==
  IF <<u, flow>> \in DOMAIN otpIssue THEN otpIssue[<<u, flow>>] ELSE 0

RECURSIVE SumOver(_, _)
SumOver(f, keys) ==
  IF keys = {} THEN 0
  ELSE LET k == CHOOSE x \in keys : TRUE IN f[k] + SumOver(f, keys \ {k})

MayIssue == SumOver(otpIssue, DOMAIN otpIssue) < MaxIssues

\* A request answered 200 on the strength of issue n of the flow's code.
Used(u, flow, n) ==
  otpUses' = Put(otpUses, <<u, flow, n>>,
                 IF <<u, flow, n>> \in DOMAIN otpUses THEN otpUses[<<u, flow, n>>] + 1 ELSE 1)

\* A faulty variant of FindByIdAndDelete: the document stays.
FindByIdAndDeleteNot(store, id) == store

\* User.findByIdAndDelete(user._id)
FindByIdAndDelete(store, id) == Drop(store, {id})

\* The document User.create inserts for a registration.
Created(email, username, password, code) ==
  [email |-> email, username |-> username, password |-> password,
   isVerified |-> FALSE,
   verificationOtp |-> code, verificationOtpExpiry |-> now + OtpTtl,
   passwordResetOtp |-> "", passwordResetOtpExpiry |-> 0,
   newEmail |-> "",
   emailChangeOtp |-> "", emailChangeOtpExpiry |-> 0,
   refreshToken |-> ""]

\* User.findOne({$or: [{username}, {email}]})
Existed(store, email, username) ==
  \E u \in DOMAIN store : store[u].username = username \/ store[u].email = email

RegisterUser(email, username, password, mailSent) ==
  /\ UNCHANGED <<now, proc, otpUses>>
  /\ UNCHANGED otpRest
  /\ IF email = "" \/ username = "" \/ password = ""
     THEN Reply("registerUser", 400, "", email, 0, username) /\ UNCHANGED <<users, otpIssue>>
     ELSE IF ~PasswordPolicyOk(password)
     THEN Reply("registerUser", 400, "", email, 0, username) /\ UNCHANGED <<users, otpIssue>>
     ELSE IF Existed(users, email, username)
     THEN Reply("registerUser", 409, "", email, 0, username) /\ UNCHANGED <<users, otpIssue>>
     ELSE \E id \in AccountIds \ DOMAIN users, code \in Codes :
            LET created == Put(users, id, Created(email, username, password, code)) IN
            IF mailSent
            THEN /\ MayIssue
                 /\ users' = created
                 /\ Issued(id, "verify")
                 /\ Reply("registerUser", 201, id, email, 0, username)
            \* the mail could not be sent: the created document is deleted
            ELSE /\ users' = FindByIdAndDelete(created, id)
                 /\ UNCHANGED otpIssue
                 /\ Reply("registerUser", 500, "", email, 0, username)

ResendVerificationEmail(email, mailSent) ==
  /\ UNCHANGED <<now, proc, otpUses>>
  /\ UNCHANGED otpRest
  /\ IF email = ""
     THEN Reply("resendVerificationEmail", 400, "", email, 0, "") /\ UNCHANGED <<users, otpIssue>>
     ELSE LET u == FindByEmail(email) IN
       IF u = "" \/ (u # "" /\ users[u].isVerified)
       THEN Reply("resendVerificationEmail", 200, "", email, 0, "") /\ UNCHANGED <<users, otpIssue>>
       ELSE \E code \in Codes :
              /\ MayIssue
              /\ users' = [users EXCEPT ![u].verificationOtp = code,
                                        ![u].verificationOtpExpiry = now + OtpTtl]
              /\ Issued(u, "verify")
              /\ Reply("resendVerificationEmail", IF mailSent THEN 200 ELSE 500, u, email, 0, "")

\* The answers of forgotPassword.
IfExistsSent == "If an account with this email exists, a password reset OTP has been sent."
ResetOtpSent == "Password reset OTP sent to your email."
ResetNotSent == "Could not send password reset email. Please try again later."

\* What forgotPassword answers over a store of users: the status, the data
\* of the ApiResponse (its fields as a sequence) and the message.
ForgotPasswordResponse(store, email, mailSent) ==
  IF email = ""
  THEN [status |-> 400, data |-> <<>>, message |-> "Email is required."]
  ELSE IF ~\E u \in DOMAIN store : store[u].email = email
  THEN [status |-> 200, data |-> <<>>, message |-> IfExistsSent]
  ELSE IF mailSent
  THEN [status |-> 200, data |-> <<email>>, message |-> ResetOtpSent]
  ELSE [status |-> 500, data |-> <<>>, message |-> ResetNotSent]

ForgotPassword(email, mailSent) ==
  /\ UNCHANGED <<now, proc, otpUses>>
  /\ UNCHANGED otpRest
  /\ LET u == FindByEmail(email)
         answer == ForgotPasswordResponse(users, email, mailSent)
     IN /\ resp' = [op |-> "forgotPassword", status |-> answer.status,
                    caller |-> IF email = "" THEN "" ELSE u, peer |-> email, id |-> 0,
                    text |-> answer.message, body |-> answer.data,
                    seq |-> 1 - resp.seq]
        /\ IF email = "" \/ u = ""
           THEN UNCHANGED <<users, otpIssue>>
           ELSE \E code \in Codes :
                  /\ MayIssue
                  /\ users' = [users EXCEPT ![u].passwordResetOtp = code,
                                            ![u].passwordResetOtpExpiry = now + OtpTtl]
                  /\ Issued(u, "reset")

\* User.findOne({$or: [{email}, {username: email}]}): an id, or "".
FindByEmailOrUsername(email) ==
  LET hits == {u \in DOMAIN users : users[u].email = email \/ users[u].username = email}
  IN IF hits = {} THEN "" ELSE CHOOSE u \in hits : TRUE

\* A faulty variant of LoginVerdict: isVerified is not looked at.
LoginVerdictUnverified(doc, password) ==
  IF doc.password # password THEN 401 ELSE 200

\* The checks of loginUser on the document it found.
LoginVerdict(doc, password) ==
  IF ~doc.isVerified THEN 403
  ELSE IF doc.password # password THEN 401
  ELSE 200

\* What generateAccessToken and generateRefreshToken of the user return.
AccessToken(u) == <<"access", u>>
RefreshToken(u) == <<"refresh", u>>

LoginUser(email, password) ==
  /\ UNCHANGED <<now, proc, otpIssue, otpUses>>
  /\ UNCHANGED otpRest
  /\ LET u == FindByEmailOrUsername(email)
         status == IF email = "" \/ password = "" THEN 400
                   ELSE IF u = "" THEN 404
                   ELSE LoginVerdict(users[u], password)
     IN /\ resp' = [op |-> "loginUser", status |-> status,
                    caller |-> IF status = 200 THEN u ELSE "", peer |-> email, id |-> 0,
                    text |-> password,
                    body |-> IF status = 200 THEN <<AccessToken(u)>> ELSE <<>>,
                    seq |-> 1 - resp.seq]
        /\ users' = IF status = 200
                    THEN [users EXCEPT ![u].refreshToken = RefreshToken(u)]
                    ELSE users

\* User.findByIdAndUpdate(req.user._id, {$set: {refreshToken: undefined}})
LogoutUser(userId) ==
  /\ userId \in DOMAIN users /\ users[userId].refreshToken # ""
  /\ UNCHANGED <<now, proc, otpIssue, otpUses>>
  /\ UNCHANGED otpRest
  /\ users' = [users EXCEPT ![userId].refreshToken = ""]
  /\ Reply("logoutUser", 200, userId, "", 0, "")

\* Behind the auth middleware: the caller holds a token, which loginUser (403
\* for an unverified account) and the Google callback give to verified accounts.
LoggedIn(userId) == userId \in DOMAIN users /\ users[userId].isVerified

RequestEmailChange(userId, newEmail, mailSent) ==
  /\ LoggedIn(userId)
  /\ UNCHANGED <<now, proc, otpUses>>
  /\ UNCHANGED otpRest
  /\ IF newEmail = ""
     THEN Reply("requestEmailChange", 400, userId, newEmail, 0, "") /\ UNCHANGED <<users, otpIssue>>
     ELSE IF FindByEmail(newEmail) # ""
     THEN Reply("requestEmailChange", 409, userId, newEmail, 0, "") /\ UNCHANGED <<users, otpIssue>>
     ELSE \E code \in Codes :
            /\ MayIssue
            /\ users' = [users EXCEPT ![userId].newEmail = newEmail,
                                      ![userId].emailChangeOtp = code,
                                      ![userId].emailChangeOtpExpiry = now + OtpTtl]
            /\ Issued(userId, "change")
            /\ Reply("requestEmailChange", IF mailSent THEN 200 ELSE 500, userId, newEmail, 0, "")

\* What the save of each handler writes, given the document it read.
VerifyOtpWrite(doc, read) ==
  [doc EXCEPT !.isVerified = TRUE,
              !.verificationOtp = "", !.verificationOtpExpiry = 0]

ResetPasswordWrite(doc, read, newPassword) ==
  [doc EXCEPT !.password = newPassword,
              !.passwordResetOtp = "", !.passwordResetOtpExpiry = 0]

VerifyEmailChangeWrite(doc, read) ==
  [doc EXCEPT !.email = read.newEmail, !.isVerified = TRUE, !.newEmail = "",
              !.emailChangeOtp = "", !.emailChangeOtpExpiry = 0]

\* The handlers, each running from its lookup to its save with no other
\* request in between.
VerifyOtp(email, otp) ==
  /\ UNCHANGED <<now, proc, otpIssue, otpUses>>
  /\ UNCHANGED otpRest
  /\ LET u == FindByEmailAndOtp("verify", email, otp) IN
     IF email = "" \/ otp = "" \/ u = ""
     THEN Reply("verifyOtp", 400, "", email, 0, otp) /\ UNCHANGED users
     ELSE /\ users' = [users EXCEPT ![u] = VerifyOtpWrite(@, @)]
          /\ Reply("verifyOtp", 200, "", email, 0, otp)

ResetPassword(email, otp, newPassword) ==
  /\ UNCHANGED <<now, proc, otpIssue, otpUses>>
  /\ UNCHANGED otpRest
  /\ LET u == FindByEmailAndOtp("reset", email, otp) IN
     IF \/ email = "" \/ otp = "" \/ newPassword = ""
        \/ ~PasswordPolicyOk(newPassword)
        \/ u = ""
        \/ (u # "" /\ users[u].password = newPassword)
     THEN Reply("resetPassword", 400, "", email, 0, otp) /\ UNCHANGED users
     ELSE /\ users' = [users EXCEPT ![u] = ResetPasswordWrite(@, @, newPassword)]
          /\ Reply("resetPassword", 200, "", email, 0, otp)

VerifyEmailChange(userId, otp) ==
  /\ LoggedIn(userId)
  /\ UNCHANGED <<now, proc, otpIssue, otpUses>>
  /\ UNCHANGED otpRest
  /\ LET u == FindByIdAndOtp(userId, otp) IN
     IF otp = "" \/ u = ""
     THEN Reply("verifyEmailChange", 400, userId, "", 0, otp) /\ UNCHANGED users
     ELSE /\ users' = [users EXCEPT ![u] = VerifyEmailChangeWrite(@, @)]
          /\ Reply("verifyEmailChange", 200, userId, "", 0, otp)

Tick ==
  /\ now < MaxTime
  /\ now' = now + 1
  /\ UNCHANGED <<users, proc, otpIssue, otpUses, resp>>
  /\ UNCHANGED otpRest

\* No document.
NoDoc == [email |-> "", username |-> "", password |-> "", isVerified |-> FALSE,
          verificationOtp |-> "", verificationOtpExpiry |-> 0,
          passwordResetOtp |-> "", passwordResetOtpExpiry |-> 0,
          newEmail |-> "", emailChangeOtp |-> "", emailChangeOtpExpiry |-> 0,
          refreshToken |-> ""]

\* A request slot with no request in it.
AtRest == [pc |-> "idle", op |-> "", user |-> "", email |-> "", otp |-> "",
           password |-> "", issue |-> 0, read |-> NoDoc]

MsgIdle ==
  /\ chatRequests = {}
  /\ conversations = EmptyCollection
  /\ messages = EmptyCollection
  /\ nextId = [conv |-> 1, msg |-> 1]
  /\ notify = NoNotify
  /\ flight = EmptyCollection

OtpInit ==
  /\ MsgIdle
  /\ SkillIdle
  /\ ReportIdle
  /\ GeminiIdle
  /\ resp = NoResponse
  /\ users = EmptyCollection
  /\ now = 0
  /\ proc = [p \in Procs |-> AtRest]
  /\ otpIssue = EmptyCollection
  /\ otpUses = EmptyCollection

OtpNext ==
  \/ \E e \in Emails \cup {""}, n \in Usernames, pw \in Passwords, sent \in BOOLEAN :
        RegisterUser(e, n, pw, sent)
  \/ \E e \in Emails \cup {""}, sent \in BOOLEAN : ResendVerificationEmail(e, sent)
  \/ \E e \in Emails \cup {""}, sent \in BOOLEAN : ForgotPassword(e, sent)
  \/ \E u \in AccountIds, e \in Emails \cup {""}, sent \in BOOLEAN : RequestEmailChange(u, e, sent)
  \/ \E e \in Emails \cup {""}, c \in Codes \cup {""} : VerifyOtp(e, c)
  \/ \E e \in Emails \cup {""}, c \in Codes \cup {""}, pw \in Passwords : ResetPassword(e, c, pw)
  \/ \E u \in AccountIds, c \in Codes \cup {""} : VerifyEmailChange(u, c)
  \/ Tick

SpecOtp == OtpInit /\ [][OtpNext]_vars

\* Registration, verification, log-in and password recovery of an account.
AccountNext ==
  \/ \E e \in Emails \cup {""}, n \in Usernames, pw \in Passwords, sent \in BOOLEAN :
        RegisterUser(e, n, pw, sent)
  \/ \E e \in Emails \cup {""}, c \in Codes \cup {""} : VerifyOtp(e, c)
  \/ \E e \in Emails \cup Usernames \cup {""}, pw \in Passwords \cup {""} : LoginUser(e, pw)
  \/ \E u \in AccountIds : LogoutUser(u)
  \/ \E e \in Emails \cup {""}, sent \in BOOLEAN : ForgotPassword(e, sent)

SpecAccount == OtpInit /\ [][AccountNext]_vars

\* ------------------------------------------------ claims on the account flows
\* C26: loginUser issues an access token and stores a refresh token only for
\* a user whose isVerified is true and whose password matches; for an
\* unverified registered user no token is issued and no refresh token is
\* stored, and a request that carries both fields is answered 403, whether
\* or not the password is the user's.
C26_TokensOnlyForVerified ==
  [][\A e \in Emails \cup Usernames \cup {""}, pw \in Passwords \cup {""} :
       (Responded("loginUser") /\ resp'.peer = e /\ resp'.text = pw) =>
          LET u == FindByEmailOrUsername(e) IN
          /\ (resp'.body # <<>> \/ users' # users \/ resp'.status = 200)
               => /\ u # ""
                  /\ users[u].isVerified
                  /\ users[u].password = pw
                  /\ resp'.body = <<AccessToken(u)>>
                  /\ users' = [users EXCEPT ![u].refreshToken = RefreshToken(u)]
          /\ (u # "" /\ ~users[u].isVerified)
               => /\ resp'.body = <<>>
                  /\ users' = users
                  /\ (e # "" /\ pw # "") => resp'.status = 403]_vars

\* An unverified user was refused with the right password.
C26_Witness ==
  /\ resp.op = "loginUser" /\ resp.status = 403
  /\ \E u \in DOMAIN users :
        /\ users[u].email = resp.peer
        /\ users[u].password = resp.text
        /\ ~users[u].isVerified
        /\ users[u].refreshToken = ""

\* C27: when the verification mail cannot be sent, registerUser answers 500
\* and the User document it created is removed, so that the same email and
\* username can be registered again.
C27_FailedRegistrationRemoved ==
  [][\A e \in Emails, n \in Usernames :
       (Responded("registerUser") /\ resp'.status = 500
          /\ resp'.peer = e /\ resp'.text = n)
         => users' = users /\ ~Existed(users', e, n)]_vars

C27_Witness ==
  /\ resp.op = "registerUser" /\ resp.status = 500
  /\ ~Existed(users, resp.peer, resp.text)

\* The store without the accounts of an email address.
WithoutEmail(store, email) ==
  Drop(store, {u \in DOMAIN store : store[u].email = email})

\* C28: forgotPassword does not reveal whether an account exists: what it
\* answers for the email of an account (status and body) is what it answers
\* over the store that differs only in not holding that account.
C28_AccountNotRevealed ==
  [][\A e \in Emails :
       (Responded("forgotPassword") /\ resp'.peer = e /\ FindByEmail(e) # "")
         => [status |-> resp'.status, data |-> resp'.body, message |-> resp'.text]
              \in {ForgotPasswordResponse(WithoutEmail(users, e), e, sent) :
                     sent \in BOOLEAN}]_vars

\* The same handlers one await at a time: the lookup (findOne, and for
\* resetPassword the comparison with the old password) is one step, the save
\* and the response another, and other requests may run in between.
FreeSlot == IF proc["p1"].pc = "idle" THEN "p1" ELSE "p2"

Found(op, u, email, otp, password, flow) ==
  /\ proc[FreeSlot].pc = "idle"
  /\ proc' = [proc EXCEPT ![FreeSlot] =
                [pc |-> "found", op |-> op, user |-> u, email |-> email, otp |-> otp,
                 password |-> password, issue |-> IssuesSoFar(u, flow), read |-> users[u]]]
  /\ UNCHANGED <<users, resp>>

VerifyOtpLookup(email, otp) ==
  /\ UNCHANGED <<now, otpIssue, otpUses>>
  /\ UNCHANGED otpRest
  /\ LET u == FindByEmailAndOtp("verify", email, otp) IN
     IF email = "" \/ otp = "" \/ u = ""
     THEN Reply("verifyOtp", 400, "", email, 0, otp) /\ UNCHANGED <<users, proc>>
     ELSE Found("verifyOtp", u, email, otp, "", "verify")

ResetPasswordLookup(email, otp, newPassword) ==
  /\ UNCHANGED <<now, otpIssue, otpUses>>
  /\ UNCHANGED otpRest
  /\ LET u == FindByEmailAndOtp("reset", email, otp) IN
     IF \/ email = "" \/ otp = "" \/ newPassword = ""
        \/ ~PasswordPolicyOk(newPassword)
        \/ u = ""
        \/ (u # "" /\ users[u].password = newPassword)
     THEN Reply("resetPassword", 400, "", email, 0, otp) /\ UNCHANGED <<users, proc>>
     ELSE Found("resetPassword", u, email, otp, newPassword, "reset")

VerifyEmailChangeLookup(userId, otp) ==
  /\ LoggedIn(userId)
  /\ UNCHANGED <<now, otpIssue, otpUses>>
  /\ UNCHANGED otpRest
  /\ LET u == FindByIdAndOtp(userId, otp) IN
     IF otp = "" \/ u = ""
     THEN Reply("verifyEmailChange", 400, userId, "", 0, otp) /\ UNCHANGED <<users, proc>>
     ELSE Found("verifyEmailChange", u, "", otp, "", "change")

\* user.save() writes the paths the handler set, whatever the document holds by now.
Save(p) ==
  /\ proc[p].pc = "found"
  /\ UNCHANGED <<now, otpIssue>>
  /\ UNCHANGED otpRest
  /\ LET r == proc[p] IN
     /\ users' = [users EXCEPT ![r.user] =
                    CASE r.op = "verifyOtp" -> VerifyOtpWrite(@, r.read)
                      [] r.op = "resetPassword" -> ResetPasswordWrite(@, r.read, r.password)
                      [] r.op = "verifyEmailChange" -> VerifyEmailChangeWrite(@, r.read)]
     /\ Used(r.user,
             CASE r.op = "verifyOtp" -> "verify"
               [] r.op = "resetPassword" -> "reset"
               [] r.op = "verifyEmailChange" -> "change",
             r.issue)
     /\ Reply(r.op, 200, IF r.op = "verifyEmailChange" THEN r.user ELSE "", r.email, 0, r.otp)
     /\ proc' = [proc EXCEPT ![p] = AtRest]

OtpRaceNext ==
  \/ \E e \in Emails \cup {""}, n \in Usernames, pw \in Passwords, sent \in BOOLEAN :
        RegisterUser(e, n, pw, sent)
  \/ \E e \in Emails \cup {""}, sent \in BOOLEAN : ResendVerificationEmail(e, sent)
  \/ \E e \in Emails \cup {""}, sent \in BOOLEAN : ForgotPassword(e, sent)
  \/ \E u \in AccountIds, e \in Emails \cup {""}, sent \in BOOLEAN : RequestEmailChange(u, e, sent)
  \/ \E e \in Emails \cup {""}, c \in Codes \cup {""} : VerifyOtpLookup(e, c)
  \/ \E e \in Emails \cup {""}, c \in Codes \cup {""}, pw \in Passwords : ResetPasswordLookup(e, c, pw)
  \/ \E u \in AccountIds, c \in Codes \cup {""} : VerifyEmailChangeLookup(u, c)
  \/ \E p \in Procs : Save(p)
  \/ Tick

SpecOtpRace == OtpInit /\ [][OtpRaceNext]_vars

\* ------------------------------------------------------ claims on the OTP flows
C5_Ops == {"verifyOtp", "resetPassword", "verifyEmailChange"}

C5_Flow(op) ==
  CASE op = "verifyOtp" -> "verify"
    [] op = "resetPassword" -> "reset"
    [] op = "verifyEmailChange" -> "change"

\* The accounts the request just answered was keyed to: by email, or by the
\* caller's id for verifyEmailChange.
C5_Keyed(op, r) ==
  {u \in DOMAIN users :
     IF op = "verifyEmailChange" THEN u = r.caller ELSE users[u].email = r.peer}

\* C5: verifyOtp, resetPassword and verifyEmailChange each answer 400 and leave
\* every user record as it was when the submitted code differs from the stored
\* code or the stored expiry is not later than the current time.
C5_RejectedUnchanged ==
  [][\A op \in C5_Ops :
       (/\ Responded(op)
        /\ ~\E u \in C5_Keyed(op, resp') :
              /\ StoredCode(users[u], C5_Flow(op)) = resp'.text
              /\ StoredExpiry(users[u], C5_Flow(op)) > now)
       => (resp'.status = 400 /\ users' = users)]_vars

\* A request was refused that carried the stored code after its expiry.
C5_Witness ==
  /\ resp.op \in C5_Ops
  /\ resp.status = 400
  /\ resp.text # ""
  /\ \E u \in C5_Keyed(resp.op, resp) :
        /\ StoredCode(users[u], C5_Flow(resp.op)) = resp.text
        /\ StoredExpiry(users[u], C5_Flow(resp.op)) <= now

\* C6: of each issued code at most one request presenting it succeeds, also
\* when two requests with the same code interleave between lookup and save.
C6_EachCodeOnce == \A k \in DOMAIN otpUses : otpUses[k] <= 1

\* ------------------------------------------- message requests, await by await
\* Each handler runs up to an await, and other requests run before it goes
\* on. A step here is the code between two awaits; neighbouring awaits with
\* nothing to decide between them are taken together.
raceRest == <<otpVars, skillVars, reportVars, geminiVars>>

\* A request slot with no message request in it.
Landed == [pc |-> "idle", op |-> "", caller |-> "", peer |-> "", text |-> "",
           conv |-> 0, list |-> <<>>]

FreeFlight == IF flight["p1"].pc = "idle" THEN "p1" ELSE "p2"

\* sendMessage requests between their first lookup and their save.
SendsInFlight == {p \in Procs : flight[p].op = "sendMessage"}

Land(p) == flight' = [flight EXCEPT ![p] = Landed]

\* sendMessage up to Conversation.findOne: the profanity check, then the
\* lookup of the pair's conversation.
SendLookup(senderId, receiverId, message) ==
  /\ flight[FreeFlight].pc = "idle"
  /\ nextId.msg + Cardinality(SendsInFlight) <= MaxMessages
  /\ UNCHANGED raceRest
  /\ IF ProfanityCheck(message)
     THEN /\ Reply("sendMessage", 400, senderId, receiverId, 0, message)
          /\ Quiet
          /\ UNCHANGED <<msgVars, flight>>
     ELSE /\ flight' = [flight EXCEPT ![FreeFlight] =
                [pc |-> IF FindConversation(senderId, receiverId) = 0 THEN "gate" ELSE "save",
                 op |-> "sendMessage", caller |-> senderId, peer |-> receiverId,
                 text |-> message, conv |-> FindConversation(senderId, receiverId),
                 list |-> <<>>]]
          /\ UNCHANGED <<msgVars, resp, notify>>

\* A faulty variant of CreateConversation: nothing is created when the pair
\* has a conversation by now.
CreateConversationIfAbsent(senderId, receiverId) ==
  IF FindConversation(senderId, receiverId) # 0 THEN conversations
  ELSE Put(conversations, nextId.conv,
           [participants |-> <<senderId, receiverId>>, messages |-> <<>>, lastMessage |-> 0])

\* Conversation.create({participants: [senderId, receiverId]})
CreateConversation(senderId, receiverId) ==
  Put(conversations, nextId.conv,
      [participants |-> <<senderId, receiverId>>, messages |-> <<>>, lastMessage |-> 0])

\* sendMessage after it found no conversation: the lookup of an accepted
\* request, then Conversation.create.
SendGate(p) ==
  /\ flight[p].op = "sendMessage"
  /\ flight[p].pc = "gate"
  /\ UNCHANGED raceRest
  /\ IF ~AcceptedRequest(flight[p].caller, flight[p].peer)
     THEN /\ Reply("sendMessage", 403, flight[p].caller, flight[p].peer, 0, flight[p].text)
          /\ Quiet
          /\ Land(p)
          /\ UNCHANGED msgVars
     ELSE /\ conversations' = CreateConversation(flight[p].caller, flight[p].peer)
          /\ nextId' = [nextId EXCEPT !.conv = @ + 1]
          /\ flight' = [flight EXCEPT ![p].pc = "save", ![p].conv = nextId.conv]
          /\ UNCHANGED <<chatRequests, messages, resp, notify>>

\* Promise.all([conversation.save(), newMessage.save()]) and what follows.
\* Both saves are started: the message is inserted; the conversation's save
\* pushes the id on the stored list and sets lastMessage, and throws when the
\* document is gone (the request then ends in the error handler).
SendSave(p, online, delivered) ==
  /\ flight[p].op = "sendMessage"
  /\ flight[p].pc = "save"
  /\ UNCHANGED raceRest
  /\ LET mid == nextId.msg
         cid == flight[p].conv
     IN /\ messages' = Put(messages, mid,
              [senderId |-> flight[p].caller, receiverId |-> flight[p].peer,
               message |-> flight[p].text, conversationId |-> cid, read |-> FALSE])
        /\ nextId' = [nextId EXCEPT !.msg = @ + 1]
        /\ UNCHANGED chatRequests
        /\ Land(p)
        /\ IF cid \in DOMAIN conversations
           THEN /\ conversations' = [conversations EXCEPT
                      ![cid].messages = PushMessage(@, mid), ![cid].lastMessage = mid]
                /\ notify' = [online |-> online, emit |-> online,
                              push |-> SendPushNotification(delivered).push]
                /\ Reply("sendMessage",
                         IF SendPushNotification(delivered).thrown THEN 500 ELSE 201,
                         flight[p].caller, flight[p].peer, mid, flight[p].text)
           ELSE /\ UNCHANGED conversations
                /\ Quiet
                /\ Reply("sendMessage", 500, flight[p].caller, flight[p].peer, mid,
                         flight[p].text)

\* clearConversation up to Conversation.findById and the two checks.
ClearLookup(userId, conversationId) ==
  /\ flight[FreeFlight].pc = "idle"
  /\ UNCHANGED raceRest
  /\ IF conversationId \notin DOMAIN conversations
     THEN /\ Reply("clearConversation", 404, userId, "", conversationId, "")
          /\ Quiet
          /\ UNCHANGED <<msgVars, flight>>
     ELSE IF userId \notin Range(conversations[conversationId].participants)
     THEN /\ Reply("clearConversation", 403, userId, "", conversationId, "")
          /\ Quiet
          /\ UNCHANGED <<msgVars, flight>>
     ELSE /\ flight' = [flight EXCEPT ![FreeFlight] =
                [pc |-> "write", op |-> "clearConversation", caller |-> userId,
                 peer |-> "", text |-> "", conv |-> conversationId,
                 list |-> conversations[conversationId].messages]]
          /\ UNCHANGED <<msgVars, resp, notify>>

\* Message.deleteMany({_id: {$in: conversation.messages}}) on the list as it
\* was read, then conversation.messages = [] and save. The save throws when
\* the document is gone. When the stored list has changed since it was read,
\* the save of the replaced array either goes through or is refused, as the
\* schema's version key decides.
ClearWrite(p, refused) ==
  /\ flight[p].op = "clearConversation"
  /\ flight[p].pc = "write"
  /\ UNCHANGED raceRest
  /\ LET cid == flight[p].conv
         gone == cid \notin DOMAIN conversations
         stale == ~gone /\ conversations[cid].messages # flight[p].list
     IN /\ refused => stale
        /\ messages' = Drop(messages, Range(flight[p].list))
        /\ conversations' =
             IF gone \/ refused THEN conversations
             ELSE [conversations EXCEPT ![cid].messages = <<>>]
        /\ UNCHANGED <<chatRequests, nextId>>
        /\ Quiet
        /\ Land(p)
        /\ Reply("clearConversation", IF gone \/ refused THEN 500 ELSE 200,
                 flight[p].caller, "", cid, "")

\* deleteConversation up to Conversation.findById and the two checks.
DeleteLookup(userId, conversationId) ==
  /\ flight[FreeFlight].pc = "idle"
  /\ UNCHANGED raceRest
  /\ IF conversationId \notin DOMAIN conversations
     THEN /\ Reply("deleteConversation", 404, userId, "", conversationId, "")
          /\ Quiet
          /\ UNCHANGED <<msgVars, flight>>
     ELSE IF userId \notin Range(conversations[conversationId].participants)
     THEN /\ Reply("deleteConversation", 403, userId, "", conversationId, "")
          /\ Quiet
          /\ UNCHANGED <<msgVars, flight>>
     ELSE LET parts == conversations[conversationId].participants
              others == {i \in DOMAIN parts : parts[i] # userId}
          IN /\ flight' = [flight EXCEPT ![FreeFlight] =
                   [pc |-> "write", op |-> "deleteConversation", caller |-> userId,
                    peer |-> IF others = {} THEN "" ELSE parts[MinOf(others)],
                    text |-> "", conv |-> conversationId, list |-> <<>>]]
             /\ UNCHANGED <<msgVars, resp, notify>>

\* The three deletes of deleteConversation and the socket event.
DeleteWrite(p, online) ==
  /\ flight[p].op = "deleteConversation"
  /\ flight[p].pc = "write"
  /\ UNCHANGED raceRest
  /\ IF flight[p].peer = "" THEN UNCHANGED chatRequests
     ELSE chatRequests' \in DeleteRequestOutcomes(flight[p].caller, flight[p].peer)
  /\ messages' = Drop(messages, {m \in DOMAIN messages :
                                   messages[m].conversationId = flight[p].conv})
  /\ conversations' = Drop(conversations, {flight[p].conv})
  /\ UNCHANGED nextId
  /\ IF flight[p].peer = "" THEN Quiet ELSE Emitted(online)
  /\ Land(p)
  /\ Reply("deleteConversation", 200, flight[p].caller, "", flight[p].conv, "")

\* Two users, with or without an accepted chat request between them, and no
\* conversation yet.
SendRaceInit ==
  /\ chatRequests \in {{}, {[requester |-> "u1", receiver |-> "u2", status |-> "accepted"]}}
  /\ conversations = EmptyCollection
  /\ messages = EmptyCollection
  /\ nextId = [conv |-> 1, msg |-> 1]
  /\ resp = NoResponse
  /\ notify = NoNotify
  /\ flight = [p \in Procs |-> Landed]
  /\ OtpIdle
  /\ SkillIdle
  /\ ReportIdle
  /\ GeminiIdle

\* sendMessage requests alone.
SendRaceNext ==
  \/ \E s, r \in UserIds, t \in Texts : SendLookup(s, r, t)
  \/ \E p \in Procs : SendGate(p)
  \/ \E p \in Procs, online, delivered \in BOOLEAN : SendSave(p, online, delivered)

SpecSendRace == SendRaceInit /\ [][SendRaceNext]_vars

\* sendMessage, clearConversation and deleteConversation requests, and
\* deleteMessage calls between their steps.
MessageRaceNext ==
  \/ \E s, r \in UserIds, t \in Texts : SendLookup(s, r, t)
  \/ \E p \in Procs : SendGate(p)
  \/ \E p \in Procs, online, delivered \in BOOLEAN : SendSave(p, online, delivered)
  \/ \E u \in UserIds, c \in 1..MaxMessages : ClearLookup(u, c)
  \/ \E p \in Procs, refused \in BOOLEAN : ClearWrite(p, refused)
  \/ \E u \in UserIds, c \in 1..MaxMessages : DeleteLookup(u, c)
  \/ \E p \in Procs, online \in BOOLEAN : DeleteWrite(p, online)
  \/ \E u \in UserIds, m \in 1..MaxMessages :
       \E online \in Read(FindConversationOfMessage(m) # 0) : DeleteMessage(u, m, online)

SpecMessageRace == SendRaceInit /\ [][MessageRaceNext]_vars

\* ------------------------------------------------- claims on racing requests
\* C15: a sendMessage that read 'no conversation' and finds the accepted
\* request creates a Conversation document without looking again, also when
\* another send has created one for the pair in the meantime; so two sends
\* that both read 'no conversation' leave two documents for the same pair.
C15_CreatedWithoutSecondLook ==
  [][\A p \in Procs :
       (flight[p].pc = "gate" /\ flight'[p].pc = "save")
       => /\ DOMAIN conversations' = DOMAIN conversations \cup {flight'[p].conv}
          /\ flight'[p].conv \notin DOMAIN conversations
          /\ Range(conversations'[flight'[p].conv].participants)
               = {flight[p].caller, flight[p].peer}]_vars

\* Two Conversation documents of the same pair, each holding the message of
\* one of the two sends.
C15_Witness ==
  \E c, d \in DOMAIN conversations :
     /\ c # d
     /\ Range(conversations[c].participants) = Range(conversations[d].participants)
     /\ conversations[c].messages # <<>>
     /\ conversations[d].messages # <<>>

\* C19: in every reachable state, also when sendMessage interleaves with
\* clearConversation or deleteConversation, every id in a conversation's
\* messages list refers to an existing Message, and every Message is listed in
\* the conversation its conversationId names. Looked at while no request is
\* between two of its awaits.
C19_ListsAndMessagesAgree ==
  (\A p \in Procs : flight[p].pc = "idle") =>
     /\ \A c \in DOMAIN conversations :
           Range(conversations[c].messages) \subseteq DOMAIN messages
     /\ \A m \in DOMAIN messages :
           /\ messages[m].conversationId \in DOMAIN conversations
           /\ m \in Range(conversations[messages[m].conversationId].messages)

\* ---------------------------------------------------------- skill controller
\* Skills in the collection when getMatchingSkills is looked at.
NumSkills == 7
\* score = (match.category === requestSkill.category) ? 10 : 0
CategoryScore == 10
\* score += <shared tags>.length * 5
TagScore == 5
\* scoredMatches.slice(0, 5)
MatchLimit == 5

\* generateTags returns tfidf.listTerms(0): distinct terms, so a skill's tags
\* are a set.
RequestSkills ==
  {[user |-> "u1", type |-> "REQUEST", title |-> "learn python", category |-> "Tech",
    tags |-> tg] : tg \in {{"learn", "python"}, {"learn"}}}

OfferSkills ==
  {[user |-> "u1", type |-> "OFFER", title |-> "python course", category |-> "Tech",
    tags |-> {"python", "learn"}],
   [user |-> "u2", type |-> "OFFER", title |-> "python art", category |-> "Art",
    tags |-> {"python"}],
   [user |-> "u2", type |-> "OFFER", title |-> "python basics", category |-> "Tech",
    tags |-> {"python"}]}

OtherSkills ==
  OfferSkills \cup
  {[user |-> "u2", type |-> "REQUEST", title |-> "python help", category |-> "Tech",
    tags |-> {"python"}]}

Titles(u, type, coll) ==
  {coll[k].title : k \in {j \in DOMAIN coll : coll[j].user = u /\ coll[j].type = type}}

\* What createSkill has made of the owners' profiles: $addToSet of the title,
\* $inc of skillsOfferedCount for an OFFER.
ProfilesOf(coll) ==
  [u \in UserIds |->
     [skillsToTeach |-> Titles(u, "OFFER", coll),
      skillsToLearn |-> Titles(u, "REQUEST", coll),
      skillsOfferedCount |->
        Cardinality({k \in DOMAIN coll : coll[k].user = u /\ coll[k].type = "OFFER"})]]

Score(match, requestSkill) ==
  (IF match.category = requestSkill.category THEN CategoryScore ELSE 0)
    + Cardinality({t \in match.tags : t \in requestSkill.tags}) * TagScore

\* A faulty variant of IsPotentialMatch: the caller's own skills pass.
IsPotentialMatchAnyOwner(match, requestSkill, userId) ==
  /\ match.type = "OFFER"
  /\ (match.category = requestSkill.category \/ match.tags \cap requestSkill.tags # {})

\* The filter of Skill.find in getMatchingSkills.
IsPotentialMatch(match, requestSkill, userId) ==
  /\ match.type = "OFFER"
  /\ match.user # userId
  /\ (match.category = requestSkill.category \/ match.tags \cap requestSkill.tags # {})

\* The ids of a set in the order find returns them.
RECURSIVE Ascending(_)
Ascending(S) == IF S = {} THEN <<>> ELSE <<MinOf(S)>> \o Ascending(S \ {MinOf(S)})

PotentialMatches(requestSkill, userId) ==
  Ascending({k \in DOMAIN skills : IsPotentialMatch(skills[k], requestSkill, userId)})

\* Array.prototype.sort((a, b) => b.score - a.score): descending and stable.
InsertByScore(sorted, id, requestSkill) ==
  LET ahead == Cardinality({i \in DOMAIN sorted :
                 Score(skills[sorted[i]], requestSkill) >= Score(skills[id], requestSkill)})
  IN SubSeq(sorted, 1, ahead) \o <<id>> \o SubSeq(sorted, ahead + 1, Len(sorted))

\* A faulty variant of SortByScore: the list is left as found.
SortByScoreNone(ids, requestSkill) == ids

RECURSIVE SortByScore(_, _)
SortByScore(ids, requestSkill) ==
  IF ids = <<>> THEN <<>>
  ELSE InsertByScore(SortByScore(SubSeq(ids, 1, Len(ids) - 1), requestSkill),
                     ids[Len(ids)], requestSkill)

\* slice(0, n)
Slice(s, n) == SubSeq(s, 1, IF Len(s) < n THEN Len(s) ELSE n)

GetMatchingSkills(userId, skillId) ==
  /\ UNCHANGED <<skills, profiles>>
  /\ moderation' = NoModeration
  /\ UNCHANGED skillRest
  /\ IF skillId \notin DOMAIN skills \/ (skillId \in DOMAIN skills /\ skills[skillId].type # "REQUEST")
     THEN /\ matches' = <<>>
          /\ Reply("getMatchingSkills", 404, userId, "", skillId, "")
     ELSE LET requestSkill == skills[skillId]
              top == Slice(SortByScore(PotentialMatches(requestSkill, userId), requestSkill),
                           MatchLimit)
          IN /\ matches' = [i \in DOMAIN top |->
                              [id |-> top[i], score |-> Score(skills[top[i]], requestSkill)]]
             /\ Reply("getMatchingSkills", 200, userId, "", skillId, "")

DeleteSkill(userId, skillId) ==
  /\ UNCHANGED matches
  /\ moderation' = NoModeration
  /\ UNCHANGED skillRest
  /\ IF skillId \notin DOMAIN skills
     THEN Reply("deleteSkill", 404, userId, "", skillId, "") /\ UNCHANGED <<skills, profiles>>
     ELSE IF skills[skillId].user # userId
     THEN Reply("deleteSkill", 403, userId, "", skillId, "") /\ UNCHANGED <<skills, profiles>>
     ELSE /\ profiles' =
               IF skills[skillId].type = "OFFER"
               THEN [profiles EXCEPT ![userId].skillsToTeach = @ \ {skills[skillId].title},
                                     ![userId].skillsOfferedCount = @ - 1]
               ELSE [profiles EXCEPT ![userId].skillsToLearn = @ \ {skills[skillId].title}]
          /\ skills' = Drop(skills, {skillId})
          /\ Reply("deleteSkill", 200, userId, "", skillId, "")

\* The skill ids the requests name: the first two documents and an id with no document.
MatchIds == {1, 2, NumSkills + 1}

\* The collection holds a REQUEST skill, then a skill of either type, then offers.
MatchInit ==
  /\ MsgIdle
  /\ OtpIdle
  /\ ReportIdle
  /\ GeminiIdle
  /\ resp = NoResponse
  /\ \E first \in RequestSkills, second \in OtherSkills, rest \in [3..NumSkills -> OfferSkills] :
        skills = [k \in 1..NumSkills |->
                    IF k = 1 THEN first ELSE IF k = 2 THEN second ELSE rest[k]]
  /\ profiles = ProfilesOf(skills)
  /\ matches = <<>>
  /\ moderation = NoModeration

MatchNext == \E u \in UserIds, k \in MatchIds : GetMatchingSkills(u, k)

SpecMatch == MatchInit /\ [][MatchNext]_vars

\* ------------------------------------------------- claims on skill matching
\* C7: for every REQUEST skill and every requesting user, the list returned by
\* getMatchingSkills holds no skill owned by the requesting user.
C7_NoOwnSkills ==
  (resp.op = "getMatchingSkills" /\ resp.status = 200)
    => \A i \in DOMAIN matches : skills[matches[i].id].user # resp.caller

\* The caller owns an OFFER skill of the request's category, and got matches.
C7_Witness ==
  /\ resp.op = "getMatchingSkills"
  /\ resp.status = 200
  /\ matches # <<>>
  /\ \E k \in DOMAIN skills :
        /\ skills[k].user = resp.caller
        /\ skills[k].type = "OFFER"
        /\ skills[k].category = skills[resp.id].category

C8_Score(k) ==
  (IF skills[k].category = skills[resp.id].category THEN 10 ELSE 0)
    + 5 * Cardinality(skills[k].tags \cap skills[resp.id].tags)

\* The OFFER skills of other users that share the category or a tag with the
\* request skill, and are not in the result.
C8_LeftOut ==
  {k \in DOMAIN skills :
     /\ skills[k].type = "OFFER"
     /\ skills[k].user # resp.caller
     /\ (skills[k].category = skills[resp.id].category
           \/ skills[k].tags \cap skills[resp.id].tags # {})
     /\ \A i \in DOMAIN matches : matches[i].id # k}

\* C8: getMatchingSkills returns at most 5 skills, each scored 10 for the
\* request's category plus 5 per shared tag, in non-increasing score order,
\* and no candidate left out scores strictly higher than a returned skill.
C8_TopFiveByScore ==
  (resp.op = "getMatchingSkills" /\ resp.status = 200)
    => /\ Len(matches) <= 5
       /\ \A i \in DOMAIN matches : matches[i].score = C8_Score(matches[i].id)
       /\ \A i, j \in DOMAIN matches : i < j => matches[i].score >= matches[j].score
       /\ \A k \in C8_LeftOut : \A i \in DOMAIN matches : C8_Score(k) <= matches[i].score

\* Five skills came back with different scores, a candidate stayed out, and a
\* lower-scored candidate precedes a higher-scored one in the collection.
C8_Witness ==
  /\ resp.op = "getMatchingSkills"
  /\ resp.status = 200
  /\ Len(matches) = 5
  /\ matches[1].score > matches[5].score
  /\ C8_LeftOut # {}
  /\ \E a, b \in DOMAIN skills :
        /\ a < b
        /\ b \in {matches[i].id : i \in DOMAIN matches}
        /\ a \in C8_LeftOut
        /\ C8_Score(a) < C8_Score(b)

\* ------------------------------------------------- posting and editing skills
\* Skill documents a run of createSkill calls may create.
MaxSkills == 2

\* req.body.title and req.body.description; "" stands for a missing field.
SkillTitles == {"", "python basics", "lock picking"}

SkillDescriptions == {"", "learn fast"}

SkillTypes == {"OFFER", "REQUEST"}

\* What callGeminiWithFallback hands back to a caller: the model's text, or
\* an error once every key has failed.
GateTexts == {"YES", "yes ", "NO", "Maybe"}

GateOutcomes == [ok : {TRUE}, text : GateTexts] \cup {[ok |-> FALSE, text |-> ""]}

\* validationText.trim().toUpperCase()
Decision(validationText) ==
  CASE validationText = "yes " -> "YES"
    [] validationText = "Maybe" -> "MAYBE"
    [] OTHER -> validationText

\* The words of a text, lower-cased (WordTokenizer over text.toLowerCase()).
Words(text) ==
  CASE text = "python basics" -> {"python", "basics"}
    [] text = "lock picking" -> {"lock", "picking"}
    [] text = "learn fast" -> {"learn", "fast"}
    [] OTHER -> {}

\* generateTags(`${title} ${description}`): the terms of the one document,
\* at most five of them; the texts here have four words at most.
GenerateTags(title, description) == Words(title) \cup Words(description)

\* $addToSet / $pull of a title on skillsToTeach (OFFER) or skillsToLearn.
AddTitle(prof, userId, type, title) ==
  IF type = "OFFER"
  THEN [prof EXCEPT ![userId].skillsToTeach = @ \cup {title}]
  ELSE [prof EXCEPT ![userId].skillsToLearn = @ \cup {title}]

\* A faulty variant of PullTitle: the title stays.
PullTitleKeep(prof, userId, type, title) == prof

PullTitle(prof, userId, type, title) ==
  IF type = "OFFER"
  THEN [prof EXCEPT ![userId].skillsToTeach = @ \ {title}]
  ELSE [prof EXCEPT ![userId].skillsToLearn = @ \ {title}]

\* What the gate call of createSkill leaves in moderation.
Asked(gate) == [gate |-> IF gate.ok THEN gate.text ELSE "failed", searched |-> FALSE]

\* Skill.create gives the document a fresh id; no document is ever removed
\* between two createSkill calls here, so the count names one.
CreateSkill(userId, title, description, type, gate) ==
  /\ UNCHANGED matches
  /\ UNCHANGED skillRest
  /\ IF title = "" \/ description = ""
     THEN /\ Reply("createSkill", 400, userId, "", 0, title)
          /\ moderation' = NoModeration
          /\ UNCHANGED <<skills, profiles>>
     ELSE IF ~gate.ok
     THEN /\ Reply("createSkill", 500, userId, "", 0, title)
          /\ moderation' = Asked(gate)
          /\ UNCHANGED <<skills, profiles>>
     ELSE IF Decision(gate.text) # "YES"
     THEN /\ Reply("createSkill", 400, userId, "", 0, title)
          /\ moderation' = Asked(gate)
          /\ UNCHANGED <<skills, profiles>>
     ELSE LET id == Cardinality(DOMAIN skills) + 1
          IN /\ id <= MaxSkills
             /\ skills' = Put(skills, id,
                   [user |-> userId, type |-> type, title |-> title,
                    description |-> description, category |-> "Tech",
                    tags |-> GenerateTags(title, description)])
             /\ profiles' =
                  LET added == AddTitle(profiles, userId, type, title)
                  IN IF type = "OFFER"
                     THEN [added EXCEPT ![userId].skillsOfferedCount = @ + 1]
                     ELSE added
             /\ moderation' = Asked(gate)
             /\ Reply("createSkill", 201, userId, "", id, title)

\* updateSkill with a body that carries a title and a description. The
\* handler reads neither req.user nor the moderation gate.
UpdateSkill(userId, skillId, title, description) ==
  /\ UNCHANGED matches
  /\ UNCHANGED skillRest
  /\ moderation' = NoModeration
  /\ IF skillId \notin DOMAIN skills
     THEN /\ Reply("updateSkill", 404, userId, "", skillId, title)
          /\ UNCHANGED <<skills, profiles>>
     ELSE LET originalSkill == skills[skillId]
          IN /\ skills' = [skills EXCEPT ![skillId].title = title,
                                         ![skillId].description = description,
                                         ![skillId].tags = GenerateTags(title, description)]
             /\ profiles' =
                  IF title # originalSkill.title
                  THEN AddTitle(PullTitle(profiles, originalSkill.user, originalSkill.type,
                                          originalSkill.title),
                                originalSkill.user, originalSkill.type, title)
                  ELSE profiles
             /\ Reply("updateSkill", 200, userId, "", skillId, title)

\* req.query.keyword; "" stands for a missing keyword.
Keywords == {"", "python"}

\* A faulty variant of SearchAllowed: the gate's answer is not looked at.
SearchAllowedAlways(gate) == TRUE

\* The safety check of getYoutubeTutorials: an answer other than YES returns
\* from inside the try; a failed gate call is caught and logged, and the
\* handler goes on to the search.
SearchAllowed(gate) == ~gate.ok \/ Decision(gate.text) = "YES"

\* videos: the search provider answers with items (TRUE) or with an error.
GetYoutubeTutorials(userId, keyword, gate, videos) ==
  /\ UNCHANGED <<skills, profiles, matches>>
  /\ UNCHANGED skillRest
  /\ IF keyword = ""
     THEN /\ moderation' = NoModeration
          /\ Reply("getYoutubeTutorials", 200, userId, "", 0, "No keyword provided.")
     ELSE IF ~SearchAllowed(gate)
     THEN /\ moderation' = Asked(gate)
          /\ Reply("getYoutubeTutorials", 200, userId, "", 0, "Query blocked by safety filter.")
     ELSE /\ moderation' = [Asked(gate) EXCEPT !.searched = TRUE]
          /\ IF videos
             THEN Reply("getYoutubeTutorials", 200, userId, "", 0, "YouTube videos fetched")
             ELSE Reply("getYoutubeTutorials", 500, userId, "", 0,
                        "Failed to fetch videos from YouTube.")

SkillInit ==
  /\ MsgIdle
  /\ OtpIdle
  /\ ReportIdle
  /\ GeminiIdle
  /\ SkillIdle
  /\ resp = NoResponse

SkillNext ==
  \/ \E u \in UserIds, t \in SkillTitles, d \in SkillDescriptions, ty \in SkillTypes,
        g \in GateOutcomes : CreateSkill(u, t, d, ty, g)
  \/ \E u \in UserIds, k \in 1..MaxSkills, t \in SkillTitles \ {""},
        d \in SkillDescriptions \ {""} : UpdateSkill(u, k, t, d)
  \/ \E u \in UserIds, w \in Keywords, g \in GateOutcomes, v \in BOOLEAN :
        GetYoutubeTutorials(u, w, g, v)

SpecSkill == SkillInit /\ [][SkillNext]_vars

\* --------------------------------------- claims on posting and editing skills
\* C13: createSkill and updateSkill create or change a Skill document, or the
\* owner's skillsToTeach, skillsToLearn and skillsOfferedCount, only in a
\* request whose moderation gate answered YES (as the handler reads the answer:
\* trimmed and upper-cased).
C13_WrittenOnlyAfterYes ==
  [][(Responded("createSkill") \/ Responded("updateSkill"))
       /\ (skills' # skills \/ profiles' # profiles)
     => Decision(moderation'.gate) = "YES"]_vars

\* C14 (as stated): getYoutubeTutorials makes a video search only after the
\* moderation gate has answered YES; when the gate answers anything else or
\* cannot be reached, no search is made.
C14_SearchOnlyAfterYes ==
  moderation.searched => Decision(moderation.gate) = "YES"

\* C14 (amended): getYoutubeTutorials makes a video search only after the
\* moderation gate has answered YES or the gate call has failed; when the gate
\* answers anything else, no search is made.
C14_SearchOnlyAfterYesOrFailure ==
  moderation.searched => (moderation.gate = "failed" \/ Decision(moderation.gate) = "YES")

C14_Witness ==
  /\ resp.op = "getYoutubeTutorials"
  /\ moderation.searched
  /\ moderation.gate = "failed"

\* ------------------------------------------------ deleteSkill, await by await
\* The frame of a skill request that is between two of its awaits.
skillRaceRest == <<msgVars, notify, otpVars, reportVars, geminiVars>>

\* deleteSkill up to Skill.findById and the two checks. The slot keeps what
\* the handler read from the document: its title (text) and its type (peer).
DeleteSkillLookup(userId, skillId) ==
  /\ flight[FreeFlight].pc = "idle"
  /\ UNCHANGED skillRaceRest
  /\ UNCHANGED <<skills, profiles, matches>>
  /\ moderation' = NoModeration
  /\ IF skillId \notin DOMAIN skills
     THEN Reply("deleteSkill", 404, userId, "", skillId, "") /\ UNCHANGED flight
     ELSE IF skills[skillId].user # userId
     THEN Reply("deleteSkill", 403, userId, "", skillId, "") /\ UNCHANGED flight
     ELSE /\ flight' = [flight EXCEPT ![FreeFlight] =
                [pc |-> "write", op |-> "deleteSkill", caller |-> userId,
                 peer |-> skills[skillId].type, text |-> skills[skillId].title,
                 conv |-> skillId, list |-> <<>>]]
          /\ UNCHANGED resp

\* The $pull of the title, the $inc of skillsOfferedCount by -1 for an OFFER
\* and skill.deleteOne(), with the values read at the lookup.
DeleteSkillWrite(p) ==
  /\ flight[p].op = "deleteSkill"
  /\ flight[p].pc = "write"
  /\ UNCHANGED skillRaceRest
  /\ UNCHANGED matches
  /\ moderation' = NoModeration
  /\ profiles' =
       LET pulled == PullTitle(profiles, flight[p].caller, flight[p].peer, flight[p].text)
       IN IF flight[p].peer = "OFFER"
          THEN [pulled EXCEPT ![flight[p].caller].skillsOfferedCount = @ - 1]
          ELSE pulled
  /\ skills' = Drop(skills, {flight[p].conv})
  /\ Land(p)
  /\ Reply("deleteSkill", 200, flight[p].caller, "", flight[p].conv, "")

\* req.body.skillsToTeach and req.body.skillsToLearn of updateAccountDetails.
TitleLists == {{}, {"python course"}}

\* updateAccountDetails of the user controller: 400 when a name is missing
\* (named is FALSE), else the two lists are stored as they were sent.
UpdateAccountDetails(userId, named, teach, learn) ==
  /\ UNCHANGED skillRaceRest
  /\ UNCHANGED <<skills, matches, flight>>
  /\ moderation' = NoModeration
  /\ IF ~named
     THEN Reply("updateAccountDetails", 400, userId, "", 0, "") /\ UNCHANGED profiles
     ELSE /\ profiles' = [profiles EXCEPT ![userId].skillsToTeach = teach,
                                           ![userId].skillsToLearn = learn]
          /\ Reply("updateAccountDetails", 200, userId, "", 0, "")

\* Two skills as createSkill left them, with the owners' profiles.
SkillRaceInit ==
  /\ chatRequests = {}
  /\ conversations = EmptyCollection
  /\ messages = EmptyCollection
  /\ nextId = [conv |-> 1, msg |-> 1]
  /\ notify = NoNotify
  /\ flight = [p \in Procs |-> Landed]
  /\ OtpIdle
  /\ ReportIdle
  /\ GeminiIdle
  /\ resp = NoResponse
  /\ skills \in [1..2 -> OtherSkills]
  /\ profiles = ProfilesOf(skills)
  /\ matches = <<>>
  /\ moderation = NoModeration

SkillRaceNext ==
  \/ \E u \in UserIds, k \in 1..3 : DeleteSkillLookup(u, k)
  \/ \E p \in Procs : DeleteSkillWrite(p)
  \/ \E u \in UserIds, named \in BOOLEAN, teach, learn \in TitleLists :
        UpdateAccountDetails(u, named, teach, learn)

SpecSkillRace == SkillRaceInit /\ [][SkillRaceNext]_vars

\* C21: in every state reachable by createSkill, updateSkill and deleteSkill
\* calls, two interleaved deleteSkill calls for one skill included, a user's
\* skillsOfferedCount is the number of existing OFFER skills of that user, and
\* is never negative. Looked at while no request is between two awaits.
C21_OfferedCountIsCount ==
  (\A p \in Procs : flight[p].pc = "idle") =>
     \A u \in UserIds :
        /\ profiles[u].skillsOfferedCount =
             Cardinality({k \in DOMAIN skills :
                            skills[k].user = u /\ skills[k].type = "OFFER"})
        /\ profiles[u].skillsOfferedCount >= 0

\* C22: skillsToTeach and skillsToLearn can drift from the Skill collection.
\* deleteSkill takes the skill's title off the owner's list without looking
\* for another skill of the owner with that title and type, and
\* updateAccountDetails stores the lists it is sent; so a state is reached
\* where skillsToTeach is not the set of titles of the user's OFFER skills.
C22_TitlesNotRecounted ==
  [][/\ \A p \in Procs :
          (flight[p].op = "deleteSkill" /\ flight[p].pc = "write"
             /\ flight'[p].pc = "idle")
          => flight[p].text \notin
               (IF flight[p].peer = "OFFER"
                THEN profiles'[flight[p].caller].skillsToTeach
                ELSE profiles'[flight[p].caller].skillsToLearn)
     /\ (Responded("updateAccountDetails") /\ resp'.status = 200)
          => \E teach, learn \in TitleLists :
                profiles' = [profiles EXCEPT ![resp'.caller].skillsToTeach = teach,
                                             ![resp'.caller].skillsToLearn = learn]]_vars

\* One of two OFFER skills with the same title has been deleted: the owner
\* still offers the title and skillsToTeach no longer holds it.
C22_Witness ==
  /\ \A p \in Procs : flight[p].pc = "idle"
  /\ resp.op = "deleteSkill"
  /\ resp.status = 200
  /\ \E k \in DOMAIN skills :
        /\ skills[k].type = "OFFER"
        /\ skills[k].user = resp.caller
        /\ skills[k].title \notin profiles[resp.caller].skillsToTeach
        /\ profiles[resp.caller].skillsToTeach # Titles(resp.caller, "OFFER", skills)

\* C30: a deleteMessage call that removes the Message document answers 200:
\* no error is returned once the message is deleted, also when no
\* conversation lists the message.
C30_DeletedThen200 ==
  [][(Responded("deleteMessage") /\ DOMAIN messages' # DOMAIN messages)
       => resp'.status = 200]_vars

\* ------------------------------------------------------------------ reports
\* Reports ever created.
MaxReports == 3
\* The callers of the report routes: the two chat users and a third account.
Reporters == UserIds \cup {"u3"}
Reasons == {"", " ", "spam"}

\* !reason || reason.trim() === ''
IsBlank(reason) == reason \in {"", " "}

\* conversation.participants.find(p => p.toString() !== reporterId.toString()), or "".
ReportedUser(conversationId, reporterId) ==
  LET ps == conversations[conversationId].participants
      others == {i \in DOMAIN ps : ps[i] # reporterId}
  IN IF others = {} THEN "" ELSE ps[MinOf(others)]

\* A faulty variant of ExistingUserReport: no earlier report is ever found.
ExistingUserReportNone(reporterId, reportedUserId, conversationId) == FALSE

\* Report.findOne({reporter, reportedUser, conversationId})
ExistingUserReport(reporterId, reportedUserId, conversationId) ==
  \E r \in BagToSet(reports) :
     /\ r.reporter = reporterId
     /\ r.reportedUser = reportedUserId
     /\ r.conversationId = conversationId

\* Report.findOne({reporter, reportedSkill})
ExistingSkillReport(reporterId, skillId) ==
  \E r \in BagToSet(reports) :
     /\ r.reporter = reporterId
     /\ r.reportedSkill = skillId

\* Where the notifications of a report may fail: nowhere, at the socket
\* emit, at createNotification, or at the push.
Failures == {"", "emit", "notification", "push"}

\* A faulty variant of NotifyReported: a failure leaves the handler.
NotifyReportedUncaught(online, failed) ==
  [online |-> online,
   emit |-> online /\ failed # "emit",
   push |-> IF failed = "" THEN "sent" ELSE IF failed = "push" THEN "failed" ELSE "",
   thrown |-> failed # ""]

\* The notifications to the reported user: the emit when a socket is found,
\* then createNotification, then the push, inside a try whose catch logs.
NotifyReported(online, failed) ==
  [online |-> online,
   emit |-> online /\ failed # "emit",
   push |-> IF failed = "" THEN "sent" ELSE IF failed = "push" THEN "failed" ELSE "",
   thrown |-> FALSE]

\* The side channels and the answer after a report was created.
Reported(op, reporterId, reportedUserId, id, reason, online, failed) ==
  LET sent == NotifyReported(online, failed) IN
  /\ notify' = [online |-> sent.online, emit |-> sent.emit, push |-> sent.push]
  /\ Reply(op, IF sent.thrown THEN 500 ELSE 200, reporterId, reportedUserId, id, reason)

reportQuiet == <<msgVars, flight, otpVars, skillVars, geminiVars>>

ReportUser(reporterId, conversationId, reason, online, failed) ==
  /\ UNCHANGED reportQuiet
  /\ IF IsBlank(reason)
     THEN Reply("reportUser", 400, reporterId, "", conversationId, reason)
          /\ UNCHANGED reports /\ Quiet
     ELSE IF conversationId \notin DOMAIN conversations
     THEN Reply("reportUser", 404, reporterId, "", conversationId, reason)
          /\ UNCHANGED reports /\ Quiet
     ELSE LET reportedUserId == ReportedUser(conversationId, reporterId) IN
       IF reportedUserId = ""
          \/ ExistingUserReport(reporterId, reportedUserId, conversationId)
       THEN Reply("reportUser", 400, reporterId, reportedUserId, conversationId, reason)
            /\ UNCHANGED reports /\ Quiet
       ELSE /\ BagCardinality(reports) < MaxReports
            /\ reports' = reports (+) SetToBag({
                 [reporter |-> reporterId, reportedUser |-> reportedUserId,
                  conversationId |-> conversationId, reportedSkill |-> 0,
                  reportType |-> "user"]})
            /\ Reported("reportUser", reporterId, reportedUserId, conversationId, reason,
                        online, failed)

ReportSkill(reporterId, skillId, reason, online, failed) ==
  /\ UNCHANGED reportQuiet
  /\ IF IsBlank(reason)
     THEN Reply("reportSkill", 400, reporterId, "", skillId, reason)
          /\ UNCHANGED reports /\ Quiet
     ELSE IF skillId \notin DOMAIN skills
     THEN Reply("reportSkill", 404, reporterId, "", skillId, reason)
          /\ UNCHANGED reports /\ Quiet
     ELSE IF skills[skillId].user = reporterId \/ ExistingSkillReport(reporterId, skillId)
     THEN Reply("reportSkill", 400, reporterId, skills[skillId].user, skillId, reason)
          /\ UNCHANGED reports /\ Quiet
     ELSE /\ BagCardinality(reports) < MaxReports
          /\ reports' = reports (+) SetToBag({
               [reporter |-> reporterId, reportedUser |-> skills[skillId].user,
                conversationId |-> 0, reportedSkill |-> skillId,
                reportType |-> "skill"]})
          /\ Reported("reportSkill", reporterId, skills[skillId].user, skillId, reason,
                      online, failed)

\* The call gets past every check of reportUser, of reportSkill.
UserReportPasses(reporterId, conversationId, reason) ==
  /\ ~IsBlank(reason)
  /\ conversationId \in DOMAIN conversations
  /\ ReportedUser(conversationId, reporterId) # ""
  /\ ~ExistingUserReport(reporterId, ReportedUser(conversationId, reporterId),
                         conversationId)

SkillReportPasses(reporterId, skillId, reason) ==
  /\ ~IsBlank(reason)
  /\ skillId \in DOMAIN skills
  /\ skills[skillId].user # reporterId
  /\ ~ExistingSkillReport(reporterId, skillId)

\* The failures a call can meet: none before the notifications are reached.
Met(reached) == IF reached THEN Failures ELSE {""}

\* Two users chat under an accepted request, and each has posted a skill.
ReportInitConversations ==
  Put(EmptyCollection, 1,
      [participants |-> <<"u1", "u2">>, messages |-> <<1>>, lastMessage |-> 1])

ReportInitSkills ==
  Put(Put(EmptyCollection, 1,
        [user |-> "u1", type |-> "REQUEST", title |-> "learn python", category |-> "Tech",
         tags |-> {"learn", "python"}]), 2,
        [user |-> "u2", type |-> "OFFER", title |-> "python basics", category |-> "Tech",
         tags |-> {"python"}])

ReportInit ==
  /\ chatRequests = {[requester |-> "u1", receiver |-> "u2", status |-> "accepted"]}
  /\ conversations = ReportInitConversations
  /\ messages = Put(EmptyCollection, 1,
       [senderId |-> "u1", receiverId |-> "u2", message |-> "hello",
        conversationId |-> 1, read |-> FALSE])
  /\ nextId = [conv |-> 2, msg |-> 2]
  /\ resp = NoResponse
  /\ notify = NoNotify
  /\ flight = EmptyCollection
  /\ OtpIdle
  /\ skills = ReportInitSkills
  /\ profiles = ProfilesOf(skills)
  /\ matches = <<>>
  /\ moderation = NoModeration
  /\ reports = EmptyBag
  /\ GeminiIdle

ReportNext ==
  \/ \E u \in Reporters, c \in DOMAIN ReportInitConversations, r \in Reasons :
       \E online \in Read(UserReportPasses(u, c, r)), failed \in Met(UserReportPasses(u, c, r)) :
          ReportUser(u, c, r, online, failed)
  \/ \E u \in Reporters, k \in DOMAIN ReportInitSkills, r \in Reasons :
       \E online \in Read(SkillReportPasses(u, k, r)), failed \in Met(SkillReportPasses(u, k, r)) :
          ReportSkill(u, k, r, online, failed)
  \/ \E u \in UserIds, c \in DOMAIN ReportInitConversations :
       \E online \in Read(c \in DOMAIN conversations) : DeleteConversation(u, c, online)
  \/ \E u \in UserIds, k \in DOMAIN ReportInitSkills : DeleteSkill(u, k)

SpecReport == ReportInit /\ [][ReportNext]_vars

\* The report routes alone, over the conversation and the skills of ReportInit.
ReportingNext ==
  \/ \E u \in Reporters, c \in DOMAIN ReportInitConversations, r \in Reasons :
       \E online \in Read(UserReportPasses(u, c, r)), failed \in Met(UserReportPasses(u, c, r)) :
          ReportUser(u, c, r, online, failed)
  \/ \E u \in Reporters, k \in DOMAIN ReportInitSkills, r \in Reasons :
       \E online \in Read(SkillReportPasses(u, k, r)), failed \in Met(SkillReportPasses(u, k, r)) :
          ReportSkill(u, k, r, online, failed)

SpecReporting == ReportInit /\ [][ReportingNext]_vars

\* ---------------------------------------------------------- claims on reports
\* The reporter of the call just answered already had a report with its key.
C9_AlreadyReported ==
  \/ /\ Responded("reportUser")
     /\ \E r \in BagToSet(reports) :
          /\ r.reportType = "user"
          /\ r.reporter = resp'.caller
          /\ r.conversationId = resp'.id
  \/ /\ Responded("reportSkill")
     /\ \E r \in BagToSet(reports) :
          /\ r.reportType = "skill"
          /\ r.reporter = resp'.caller
          /\ r.reportedSkill = resp'.id

\* After the step no two reports share (reporter, reported user, conversation)
\* or (reporter, skill).
C9_OnePerKey ==
  \A r, q \in BagToSet(reports') :
     (\/ /\ r.reportType = "user" /\ q.reportType = "user"
         /\ r.reporter = q.reporter
         /\ r.reportedUser = q.reportedUser
         /\ r.conversationId = q.conversationId
      \/ /\ r.reportType = "skill" /\ q.reportType = "skill"
         /\ r.reporter = q.reporter
         /\ r.reportedSkill = q.reportedSkill)
     => (r = q /\ CopiesIn(r, reports') = 1)

\* The conversation or the skill the call names is still there.
C9_TargetExists ==
  IF resp'.op = "reportUser" THEN resp'.id \in DOMAIN conversations
                             ELSE resp'.id \in DOMAIN skills

\* C9 as stated: a reportUser or reportSkill call by a reporter who already has
\* a report with the same key answers 400 and creates no report, so at most
\* one report exists per key.
C9_DuplicateIs400 ==
  [][/\ C9_AlreadyReported => (resp'.status = 400 /\ reports' = reports)
     /\ C9_OnePerKey]_vars

\* C9, amended: such a call creates no report and answers 400, or 404 when it
\* gives a reason and the conversation or the skill has been deleted since; at
\* most one report exists per key.
C9_DuplicateIs400Or404 ==
  [][/\ C9_AlreadyReported =>
          /\ reports' = reports
          /\ resp'.status = IF resp'.text \in {"", " "} \/ C9_TargetExists THEN 400 ELSE 404
     /\ C9_OnePerKey]_vars

\* A second report with a reason, on a conversation that is still there and
\* against the same user, was refused.
C9_Witness ==
  /\ resp.op = "reportUser"
  /\ resp.status = 400
  /\ resp.text = "spam"
  /\ resp.id \in DOMAIN conversations
  /\ \E r \in BagToSet(reports) :
        /\ r.reporter = resp.caller
        /\ r.conversationId = resp.id
        /\ r.reportedUser = resp.peer

\* C29: a reportUser or reportSkill call that passes validation creates
\* exactly one Report and answers 200, also when the socket emit, the creation
\* of the notification or the push to the reported user fails.
C29_ReportedDespiteFailure ==
  [][\A u \in Reporters, r \in Reasons :
       /\ \A c \in DOMAIN ReportInitConversations :
            (Responded("reportUser") /\ resp'.caller = u /\ resp'.id = c
               /\ resp'.text = r /\ UserReportPasses(u, c, r))
              => /\ resp'.status = 200
                 /\ reports' = reports (+) SetToBag({
                      [reporter |-> u, reportedUser |-> ReportedUser(c, u),
                       conversationId |-> c, reportedSkill |-> 0,
                       reportType |-> "user"]})
                 /\ BagCardinality(reports') = BagCardinality(reports) + 1
       /\ \A k \in DOMAIN ReportInitSkills :
            (Responded("reportSkill") /\ resp'.caller = u /\ resp'.id = k
               /\ resp'.text = r /\ SkillReportPasses(u, k, r))
              => /\ resp'.status = 200
                 /\ reports' = reports (+) SetToBag({
                      [reporter |-> u, reportedUser |-> skills[k].user,
                       conversationId |-> 0, reportedSkill |-> k,
                       reportType |-> "skill"]})
                 /\ BagCardinality(reports') = BagCardinality(reports) + 1]_vars

\* A report was answered 200 although the socket emit to the reported user,
\* who was connected, failed.
C29_Witness ==
  /\ resp.op \in {"reportUser", "reportSkill"}
  /\ resp.status = 200
  /\ notify.online /\ ~notify.emit /\ notify.push = ""
  /\ \E q \in BagToSet(reports) : q.reporter = resp.caller /\ q.reportedUser = resp.peer

\* ------------------------------------------------- generative-AI key fallback
\* Entries of GOOGLE_API_KEYS.
MaxKeys == 3
\* What may stand between two commas.
RawKeys == {"", " ", "k1", " k2"}
Contexts == {"chat", "generate"}

\* String.prototype.trim
Trim(raw) ==
  CASE raw = " " -> ""
    [] raw = " k2" -> "k2"
    [] OTHER -> raw

\* process.env.GOOGLE_API_KEYS?.split(',').map(key => key.trim()); split never
\* returns an empty array.
ApiKeys == [k \in DOMAIN env.parts |-> Trim(env.parts[k])]

\* !apiKeys || apiKeys.length === 0 || !apiKeys[0]
NoKeysConfigured == ~env.set \/ Len(ApiKeys) = 0 \/ ApiKeys[1] = ""

\* A faulty variant of IsLastKey: the loop gives up one key early.
IsLastKeyEarly(i) == i >= Len(ApiKeys) - 1

\* i === apiKeys.length - 1
IsLastKey(i) == i = Len(ApiKeys)

\* The call starts: the keys are read, and the loop is entered unless none is configured.
CallGeminiWithFallback(context) ==
  /\ gemini.pc = "idle"
  /\ gemini' = IF NoKeysConfigured
               THEN [gemini EXCEPT !.pc = "threw", !.context = context, !.error = "no keys"]
               ELSE [gemini EXCEPT !.pc = "calling", !.context = context, !.i = 1]
  /\ UNCHANGED env
  /\ UNCHANGED geminiRest

\* One turn of the loop: the request goes out with key i and succeeds or throws.
TryKey(succeeds) ==
  /\ gemini.pc = "calling"
  /\ LET attempt == [index |-> gemini.i, key |-> ApiKeys[gemini.i], ok |-> succeeds]
     IN gemini' =
          IF succeeds
          THEN [gemini EXCEPT !.pc = "returned", !.tried = Append(@, attempt)]
          ELSE IF IsLastKey(gemini.i)
          THEN [gemini EXCEPT !.pc = "threw", !.tried = Append(@, attempt),
                              !.error = "unavailable"]
          ELSE [gemini EXCEPT !.i = @ + 1, !.tried = Append(@, attempt)]
  /\ UNCHANGED env
  /\ UNCHANGED geminiRest

RECURSIVE SeqsUpTo(_, _)
SeqsUpTo(S, n) ==
  IF n = 0 THEN {<<>>}
  ELSE LET shorter == SeqsUpTo(S, n - 1)
       IN shorter \cup {Append(q, x) : q \in shorter, x \in S}

\* The variable is unset, or holds up to MaxKeys entries.
GeminiInit ==
  /\ MsgIdle
  /\ OtpIdle
  /\ SkillIdle
  /\ ReportIdle
  /\ resp = NoResponse
  /\ env \in {Unset} \cup {[set |-> TRUE, parts |-> q] : q \in SeqsUpTo(RawKeys, MaxKeys) \ {<<>>}}
  /\ gemini = NoCall

GeminiNext ==
  \/ \E c \in Contexts : CallGeminiWithFallback(c)
  \/ \E ok \in BOOLEAN : TryKey(ok)

SpecGemini == GeminiInit /\ [][GeminiNext]_vars

\* ------------------------------------------------- claims on the key fallback
\* C10: callGeminiWithFallback tries the configured keys in list order, each
\* entry at most once, returns on the first key whose call succeeds without
\* trying later keys, and raises its 'unavailable' error only after the call
\* has failed on every key of the list.
C10_KeysInOrder ==
  LET t == gemini.tried IN
  /\ \A j \in DOMAIN t : t[j].index = j /\ t[j].key = Trim(env.parts[j])
  /\ \A j \in DOMAIN t : j < Len(t) => ~t[j].ok
  /\ gemini.pc = "returned" <=> (t # <<>> /\ t[Len(t)].ok)
  /\ gemini.error = "unavailable" =>
        (Len(t) = Len(env.parts) /\ \A j \in DOMAIN t : ~t[j].ok)

\* The first key failed, the second answered, the third was never tried.
C10_Witness ==
  /\ gemini.pc = "returned"
  /\ Len(gemini.tried) = 2
  /\ Len(env.parts) = 3

====
